---- MODULE Spec2Model ----
(***************************************************************************)
(* Claim memory cache of the claim verification pipeline: the retrieval    *)
(* engine (retriever.py), the cache decision of retrieve_node and the      *)
(* five-stage orchestrator (pipeline.py), and the dedup/merge engine       *)
(* (memory.py), run by concurrent requests against one shared claim store. *)
(*                                                                         *)
(* Scores are fixed-point: similarities and confidences in 1/10000, the    *)
(* decay factor in 1/100000, reliabilities in 1/100, time in whole days.   *)
(***************************************************************************)
EXTENDS Integers, Sequences, FiniteSets, TLC

VARIABLES
    store,              \* the claims_memory collection: id -> payload
    nextId,             \* ids handed out so far (uuid4 never repeats)
    now,                \* the day of the latest datetime.now()
    state,              \* worker -> the PipelineState of the request it runs
    web_search_agent,   \* whether create_pipeline could build a WebSearchAgent
    env,                \* the run's environment: workers, submitted texts and
                        \* datasets, last day
    requestsLeft,       \* requests that may still be submitted
    faultsLeft,         \* external failures that may still happen (< 0: any number)
    returned,           \* what the latest call of a store maintenance method returned
    collection_exists   \* whether the store holds the claims_memory collection

vars == <<store, nextId, now, state, web_search_agent, env, requestsLeft, faultsLeft,
         returned, collection_exists>>

(***************************************************************************)
(* Bounds of the model.                                                    *)
(***************************************************************************)
MaxRequests == 1        \* requests submitted in one behaviour of Spec
MaxDay == 4             \* the days of Spec are 0..MaxDay
ConcRequests == 3       \* requests submitted in one behaviour of SpecConc
ConcFaults == 1         \* external failures in one behaviour of SpecConc
ConcDay == 1            \* the days of SpecConc are 0..ConcDay
EntryRequests == 2      \* requests and batches in one behaviour of SpecEntry
EntryFaults == 1        \* external failures in one behaviour of SpecEntry
MaxBatch == 1           \* claims in one batch_upsert call
RepeatRequests == 2     \* requests submitted in one behaviour of SpecRepeat
RepeatFaults == 1       \* external failures in one behaviour of SpecRepeat
AdminRequests == 2      \* calls in a run of requests and store maintenance
AdminFaults == 1        \* and the external calls that may fail in it
IngestRequests == 2     \* calls in a run of bulk ingestions
IngestFaults == 1       \* and the external calls that may fail in it
MaxId == 202            \* ids a bulk ingestion may reach
SearchRecords == 3      \* records in the store that is searched
SearchDays == 1         \* days after the ingestion on which it is searched
UndatedRequests == 2    \* calls in a run over rows with unusual timestamps
UndatedFaults == 1      \* and the external calls that may fail in it
MaxEvidence == 2        \* evidence items handed to the reasoner on its own

ShareRequests == 2      \* requests of a run that looks for shared state
ShareFaults == 1        \* and the external calls that may fail in it

RankedRecords == 2      \* records in the store a request ranks
RankedRequests == 1     \* requests submitted against that store

MaxDataset == 2         \* rows the dataset loaders yield

RaceRequests == 2       \* requests submitted in one behaviour of SpecRace

Slots == {1, 2}         \* the workers that run requests

(***************************************************************************)
(* config.py                                                               *)
(***************************************************************************)
SIMILARITY_THRESHOLD == 9200
CACHE_HIT_THRESHOLD == 8500
CACHE_MAX_AGE_DAYS == 3
DEFAULT_TOP_K == 10
LOW_CONFIDENCE_THRESHOLD == 5000

VERDICT_TRUE == "True"
VERDICT_FALSE == "False"
VERDICT_UNCERTAIN == "Uncertain"
Verdicts == {VERDICT_TRUE, VERDICT_FALSE, VERDICT_UNCERTAIN}

\* Python's None is the empty sequence; a value v that may be None is <<v>>
NONE == <<>>
Some(v) == <<v>>

(***************************************************************************)
(* The embedding gateway and the store's cosine similarity.  A raw text    *)
(* and the canonical claim the normalizing LLM makes of it share a         *)
(* concept; texts of different concepts are paraphrase-close or apart.     *)
(***************************************************************************)
RawTexts == {"x", "p"}

\* Python's None where the code expects a text (an image-only request has
\* raw_text = None); a string, as every other text is
NoText == "<None>"

\* a text of 2001 characters
LongText == "<2001 characters>"

\* texts the input validation is there to stop: the empty text, a text of two
\* characters, a text without any letter, a text that is too long
InvalidTexts == {"", "ab", "123", LongText}

\* len(text): the texts that stand for claims are ordinary sentences
TextLength(text) ==
    CASE text = "" -> 0
      [] text = "ab" -> 2
      [] text = "123" -> 3
      [] text = LongText -> 2001
      [] OTHER -> 24

\* any(c.isalpha() for c in text)
HasAlpha(text) == text \notin {"", "123"}

\* Python's truth value of an optional text
Truthy(text) == text \notin {NoText, ""}

\* embed_model.embed([text]) needs a string
Embeddable(text) == text # NoText

\* the text Gemini reads in the image a request uploads, and the image
ImageText == "x"
Image == "image.png"

\* the core claim the normalizing LLM extracts from a raw text
Canon(raw) ==
    CASE raw = "x" -> "X"
      [] raw = "p" -> "P"
      [] OTHER -> raw

\* cosine similarity of the embeddings of two texts: a raw text and its
\* canonical claim sit exactly on the dedup threshold, the two canonical
\* claims are paraphrases between the thresholds, "X" and "p" sit exactly on
\* the cache-hit threshold and "x" and "P" just below it
Sim(a, b) ==
    CASE a = b -> 10000
      [] {a, b} \in {{"x", "X"}, {"p", "P"}} -> 9200
      [] {a, b} \in {{"X", "P"}, {"x", "p"}} -> 9000
      [] {a, b} = {"X", "p"} -> 8500
      [] OTHER -> 8499

(***************************************************************************)
(* Timestamps.  update_or_create writes datetime.now().isoformat().        *)
(***************************************************************************)
IsoTimestamp(day) == [kind |-> "iso", day |-> day]

\* an age at which the decay factor is 0.5: records that old are in the store
SearchEpoch == 800

\* timestamps a caller of batch_upsert can store: the date and the time of a
\* day separated by a space ("2024-01-01 10:00:00"), the empty string, and a
\* string that is no date
SpacedTimestamp(day) == [kind |-> "spaced", day |-> day]
NoTimestamp == [kind |-> "missing", day |-> 0]
BadTimestamp == [kind |-> "unparseable", day |-> 0]

\* the age from which math.exp(-(days_old^2) / (2 * 90^2)) is so small that
\* the double 0.5 + 0.5 * decay is 0.5
DecaySaturationAge == 772

\* _apply_time_decay: days_old of a payload timestamp.  A string with a "T"
\* goes to datetime.fromisoformat, any other to strptime(_, "%Y-%m-%d"),
\* which raises on a string that holds more than a date; the empty string
\* and a string that raised give 0.
DecayDaysOld(ts, today) ==
    IF ts.kind = "iso" THEN today - ts.day ELSE 0

\* a factor that does not depend on the age
DecayFactorFlat(days_old) == 100000

\* 0.5 + 0.5 * exp(-(days_old^2) / (2 * sigma^2)), sigma = 90, in 1/100000,
\* at the ages the model uses: the first days, and the ages from which the
\* double 0.5 + 0.5 * decay is 0.5
DecayFactor(days_old) ==
    LET d == IF days_old < 0 THEN 0 - days_old ELSE days_old
    IN  CASE d = 0 -> 100000
          [] d = 1 -> 99997
          [] d = 2 -> 99988
          [] d = 3 -> 99972
          [] d = 4 -> 99951
          [] d = 5 -> 99923
          [] d = 6 -> 99889
          [] d = 7 -> 99849
          [] d = 8 -> 99803
          [] d >= DecaySaturationAge -> 50000

\* adjusted_score = result.score * (0.5 + 0.5 * decay)
AdjustedScore(score, days_old) == score * DecayFactor(days_old)

(***************************************************************************)
(* The claim store's query interface (QdrantClient.search).                *)
(***************************************************************************)
StoredIds == DOMAIN store

\* the scored points of a query over the whole collection
Hit(id, query_text) ==
    [id |-> id, score |-> Sim(query_text, store[id].normalized_text),
     payload |-> store[id]]

\* client.search(query_vector, limit = k): the k best points, best first;
\* the order among points of equal score is the store's to choose
ClientSearch(query_text, k) ==
    LET n == Cardinality(StoredIds)
        m == IF k < n THEN k ELSE n
        Orders == {o \in [1..n -> StoredIds] :
                      /\ \A i, j \in 1..n : i # j => o[i] # o[j]
                      /\ \A i \in 1..n : i < n =>
                            Sim(query_text, store[o[i]].normalized_text)
                              >= Sim(query_text, store[o[i + 1]].normalized_text)}
    IN  {[i \in 1..m |-> Hit(o[i], query_text)] : o \in Orders}

(***************************************************************************)
(* retriever.py                                                            *)
(***************************************************************************)
\* a sort that puts the later of two entries of equal score first
RECURSIVE InsertByScoreUnstable(_, _)
InsertByScoreUnstable(sorted, e) ==
    IF sorted = <<>> THEN <<e>>
    ELSE IF e.adjusted >= sorted[Len(sorted)].adjusted
         THEN Append(InsertByScoreUnstable(SubSeq(sorted, 1, Len(sorted) - 1), e),
                     sorted[Len(sorted)])
         ELSE Append(sorted, e)

\* list.sort(key = adjusted score, reverse = True): a stable sort
RECURSIVE InsertByScore(_, _)
InsertByScore(sorted, e) ==
    IF sorted = <<>> THEN <<e>>
    ELSE IF e.adjusted > sorted[Len(sorted)].adjusted
         THEN Append(InsertByScore(SubSeq(sorted, 1, Len(sorted) - 1), e),
                     sorted[Len(sorted)])
         ELSE Append(sorted, e)

RECURSIVE SortByScore(_)
SortByScore(s) ==
    IF s = <<>> THEN <<>>
    ELSE InsertByScore(SortByScore(SubSeq(s, 1, Len(s) - 1)), s[Len(s)])

\* RetrievalAgent._apply_time_decay
ApplyTimeDecay(results, today) ==
    SortByScore([i \in 1..Len(results) |->
        [result |-> results[i],
         adjusted |-> AdjustedScore(results[i].score,
                                    DecayDaysOld(results[i].payload.timestamp, today)),
         days_old |-> DecayDaysOld(results[i].payload.timestamp, today)]])

\* RetrievalAgent._convert_to_retrieved_claim
ConvertToRetrievedClaim(result, decayed_score) ==
    [id |-> result.id,
     claim_text |-> result.payload.claim_text,
     normalized_text |-> result.payload.normalized_text,
     verdict |-> result.payload.verdict,
     confidence |-> result.payload.confidence,
     source |-> result.payload.source,
     source_reliability |-> result.payload.source_reliability,
     timestamp |-> result.payload.timestamp,
     seen_count |-> result.payload.seen_count,
     similarity_score |-> result.score,
     time_decayed_score |-> decayed_score]

\* RetrievalAgent.search, after the store answered with `results`
SearchConvert(results, apply_time_decay, today) ==
    IF apply_time_decay
    THEN LET decayed == ApplyTimeDecay(results, today)
         IN  [i \in 1..Len(decayed) |->
                 ConvertToRetrievedClaim(decayed[i].result, decayed[i].adjusted)]
    ELSE [i \in 1..Len(results) |->
             ConvertToRetrievedClaim(results[i], results[i].score * 100000)]

\* a search that answers from the store even when the query failed
SearchDespiteFailure(query_text, k, apply_time_decay, store_ok, today) ==
    {SearchConvert(results, apply_time_decay, today) :
         results \in ClientSearch(query_text, k)}

\* RetrievalAgent.search: the lists it can return.  store_ok = FALSE is a
\* failing store query, which search turns into an empty list.
Search(query_text, k, apply_time_decay, store_ok, today) ==
    IF ~store_ok THEN {<<>>}
    ELSE {SearchConvert(results, apply_time_decay, today) :
              results \in ClientSearch(query_text, k)}

\* a threshold test that leaves out the threshold itself
MeetsThresholdExclusive(score, threshold) == score > threshold

\* get_similar_claim: results[0].similarity_score >= threshold
MeetsThreshold(score, threshold) == score >= threshold

\* a dedup check that merges at the cache-hit threshold
SimilarClaimAtCacheThreshold(results, threshold) ==
    IF results # <<>> /\ results[1].similarity_score >= CACHE_HIT_THRESHOLD
    THEN Some(results[1])
    ELSE NONE

\* RetrievalAgent.get_similar_claim, given what search returned
SimilarClaimOf(results, threshold) ==
    IF results # <<>> /\ MeetsThreshold(results[1].similarity_score, threshold)
    THEN Some(results[1])
    ELSE NONE

(***************************************************************************)
(* pipeline.py: the PipelineState and the five nodes.  Each node is the    *)
(* function from the state it receives, and the outcomes of the external   *)
(* calls it makes, to the state it returns.                                *)
(***************************************************************************)
\* ClaimVerificationPipeline.verify: the two checks before the pipeline runs
VerifyAccepts(text, image_path) ==
    /\ Truthy(text) \/ image_path # NONE
    /\ ~(Truthy(text) /\ TextLength(text) > 2000)

\* api_server.ClaimRequest: Field(min_length = 3, max_length = 2000) and
\* validate_text
ClaimRequestAccepts(text) ==
    /\ text # NoText
    /\ TextLength(text) >= 3
    /\ TextLength(text) <= 2000
    /\ HasAlpha(text)

\* validation.sanitize_claim_text: the texts of the model hold no control
\* character, no run of whitespace, no injection pattern and no quote, and
\* the ones that pass validate_claim_input are not longer than max_length
SanitizeClaimText(text) == IF Truthy(text) THEN text ELSE ""

\* validation.validate_claim_input: the sanitized text, or NONE for a
\* ValidationError
ValidateClaimInput(text) ==
    IF /\ Truthy(text)
       /\ TextLength(text) >= 3
       /\ TextLength(text) <= 2000
       /\ HasAlpha(text)
    THEN Some(SanitizeClaimText(text))
    ELSE NONE

\* ClaimVerificationPipeline.verify: initial_state
InitialState(text) ==
    [pc |-> "normalizer",
     raw_text |-> text,
     image_path |-> NONE,
     normalized_claim |-> NONE,
     retrieved_evidence |-> NONE,
     cache_hit |-> FALSE,
     web_search_results |-> NONE,
     web_search_used |-> FALSE,
     verification_result |-> NONE,
     memory_update_result |-> NONE,
     errors |-> <<>>,
     existing |-> NONE,         \* update_or_create's local `existing`
     call_now |-> 0,            \* update_or_create's local `now`
     visited |-> <<>>,          \* the nodes run so far
     web_invoked |-> FALSE,     \* the web search service was called
     web_returned |-> FALSE,    \* and returned at least one result
     entry |-> "verify"]        \* the entry point the request came through

\* a worker that runs no request
IdleState == [InitialState("") EXCEPT !.pc = "idle"]

Visit(s, node, next) ==
    [s EXCEPT !.visited = Append(@, node), !.pc = next]

\* NormalizerAgent.normalize_text.  llm_ok: the normalizing LLM answered with
\* JSON; the except branches put the raw text in its place
NormalizeText(raw_text, llm_ok) ==
    [original_text |-> raw_text,
     normalized_text |-> IF llm_ok THEN Canon(raw_text) ELSE raw_text]

\* NormalizerAgent.extract_from_image.  image = "ok": Gemini answered with
\* the text and the main claim of the image; "fail": opening the image, the
\* call or the parsing of its reply raised, and the except branch returns
\* empty texts
ExtractFromImage(image) ==
    IF image = "ok"
    THEN [original_text |-> ImageText, normalized_text |-> Canon(ImageText)]
    ELSE [original_text |-> "", normalized_text |-> ""]

\* f"{a}\n{b}".strip()
JoinLines(a, b) == IF a = "" THEN b ELSE a \o "\n" \o b

\* NormalizerAgent.process: the NormalizedClaim, or NONE when it raises
\* (image = "raise": no Gemini model is configured; no text and no image)
Process(text, image_path, llm_ok, image) ==
    IF image_path # NONE /\ image = "raise" THEN NONE
    ELSE IF image_path # NONE /\ Truthy(text)
    THEN LET image_claim == ExtractFromImage(image)
             text_claim == NormalizeText(text, llm_ok)
         IN  Some([original_text |-> JoinLines(image_claim.original_text,
                                               text_claim.original_text),
                   normalized_text |->
                       IF text_claim.normalized_text # ""
                       THEN text_claim.normalized_text
                       ELSE image_claim.normalized_text])
    ELSE IF image_path # NONE THEN Some(ExtractFromImage(image))
    ELSE IF Truthy(text) THEN Some(NormalizeText(text, llm_ok))
    ELSE NONE

\* normalize_node.  embed_ok: retriever._get_embedding returned.
NormalizeNode(s, llm_ok, image, embed_ok) ==
    LET result == Process(s.raw_text, s.image_path, llm_ok, image)
        t == Visit(s, "normalizer", "retriever")
    IN  IF result # NONE /\ embed_ok
        THEN [t EXCEPT !.normalized_claim = Some(result[1])]
        ELSE [t EXCEPT !.errors = Append(@, "Normalization error"),
                       !.normalized_claim =
                 Some([original_text |-> s.raw_text,
                       normalized_text |-> s.raw_text])]

\* an age check that lets any age pass
IsRecentAlways(ts, today) == TRUE

\* retrieve_node: age of the cached result.  Every non-empty timestamp goes
\* to datetime.fromisoformat, which reads a date and a time separated by any
\* character; the empty string and a string that raised are recent.
IsRecent(ts, today) ==
    IF ts.kind \in {"iso", "spaced"}
    THEN today - ts.day <= CACHE_MAX_AGE_DAYS
    ELSE TRUE

\* a cache decision whose threshold is exclusive
CacheHitExclusive(results, today) ==
    IF results # <<>>
    THEN /\ results[1].similarity_score > CACHE_HIT_THRESHOLD
         /\ IsRecent(results[1].timestamp, today)
    ELSE FALSE

\* a cache decision that accepts any retrieved candidate
CacheHitAnyCandidate(results, today) ==
    \E i \in 1..Len(results) :
        /\ results[i].similarity_score >= CACHE_HIT_THRESHOLD
        /\ IsRecent(results[i].timestamp, today)

\* retrieve_node: cache hit if high similarity AND recent
CacheHit(results, today) ==
    IF results # <<>>
    THEN /\ results[1].similarity_score >= CACHE_HIT_THRESHOLD
         /\ IsRecent(results[1].timestamp, today)
    ELSE FALSE

\* retrieve_node: the serializable form of a RetrievedClaim
Evidence(r) ==
    [id |-> r.id, claim_text |-> r.claim_text, verdict |-> r.verdict,
     confidence |-> r.confidence, source |-> r.source,
     source_reliability |-> r.source_reliability,
     similarity_score |-> r.similarity_score,
     time_decayed_score |-> r.time_decayed_score,
     seen_count |-> r.seen_count, timestamp |-> r.timestamp]

\* an except branch that only logs the error
RetrieveFailedBare(s) ==
    [s EXCEPT !.errors = Append(@, "Retrieval error")]

\* retrieve_node's except branch
RetrieveFailed(s) ==
    [s EXCEPT !.errors = Append(@, "Retrieval error"),
              !.retrieved_evidence = Some(<<>>),
              !.cache_hit = FALSE]

\* retrieve_node.  embed_ok: search could embed the query; results: what
\* retriever.search(normalized_text, k = 10) returned.
RetrieveNode(s, embed_ok, store_ok, results, today) ==
    LET t == Visit(s, "retriever", "web_search")
    IN  IF embed_ok
        THEN [t EXCEPT !.retrieved_evidence =
                           Some([i \in 1..Len(results) |-> Evidence(results[i])]),
                       !.cache_hit = CacheHit(results, today)]
        ELSE RetrieveFailed(t)

\* a skip condition that forgets the cache hit
WebSearchSkippedNoAgent(s, agent) == ~agent

\* web_search_node: the two early returns
WebSearchSkipped(s, agent) == s.cache_hit \/ ~agent

\* a graph that routes around web_search when the skip condition holds
WebSearchBypassed(s, agent, outcome) ==
    IF s.cache_hit \/ ~agent THEN [s EXCEPT !.pc = "reasoner"]
    ELSE [Visit(s, "web_search", "reasoner") EXCEPT
              !.web_invoked = TRUE,
              !.web_returned = (outcome \in {"results", "malformed"}),
              !.web_search_used = (outcome \in {"results", "malformed"}),
              !.web_search_results =
                  IF outcome = "results" THEN Some("sources") ELSE NONE]

\* web_search_node.  outcome of web_search_agent.search_for_fact_check:
\* "results" (a non-empty list), "empty" (no result), "fail" (the Tavily
\* call failed, which WebSearchAgent.search turns into no result),
\* "malformed" (results whose content cannot be sliced).
WebSearchNode(s, agent, outcome) ==
    LET t == [Visit(s, "web_search", "reasoner") EXCEPT
                  !.web_search_used = FALSE, !.web_search_results = NONE]
    IN  IF WebSearchSkipped(s, agent) THEN t
        ELSE LET u == [t EXCEPT !.web_invoked = TRUE] IN
             CASE outcome = "results" ->
                    [u EXCEPT !.web_returned = TRUE,
                              !.web_search_used = TRUE,
                              !.web_search_results = Some("sources")]
               [] outcome = "malformed" ->
                    [u EXCEPT !.web_returned = TRUE,
                              !.web_search_used = TRUE,
                              !.errors = Append(@, "Web search error")]
               [] OTHER -> u

(***************************************************************************)
(* reasoner.py                                                             *)
(***************************************************************************)
\* the dict keys of `votes` / `verdict_scores` in insertion order: the three
\* verdicts, then any other verdict in order of first appearance
RECURSIVE VoteKeys(_, _)
VoteKeys(keys, evidence) ==
    IF evidence = <<>> THEN keys
    ELSE LET v == Head(evidence).verdict
         IN  VoteKeys(IF \E i \in 1..Len(keys) : keys[i] = v
                      THEN keys ELSE Append(keys, v),
                      Tail(evidence))

\* weight = ev.similarity_score * ev.source_reliability, summed per verdict
RECURSIVE VoteOf(_, _)
VoteOf(verdict, evidence) ==
    IF evidence = <<>> THEN 0
    ELSE (IF Head(evidence).verdict = verdict
          THEN Head(evidence).similarity_score * Head(evidence).source_reliability
          ELSE 0) + VoteOf(verdict, Tail(evidence))

RECURSIVE TotalWeight(_)
TotalWeight(evidence) ==
    IF evidence = <<>> THEN 0
    ELSE Head(evidence).similarity_score * Head(evidence).source_reliability
         + TotalWeight(Tail(evidence))

Min(a, b) == IF a < b THEN a ELSE b
Max(a, b) == IF a > b THEN a ELSE b

\* ReasoningAgent._calculate_consensus_confidence
ConsensusConfidence(evidence, predicted_verdict) ==
    IF evidence = <<>> THEN LOW_CONFIDENCE_THRESHOLD
    ELSE IF TotalWeight(evidence) = 0 THEN LOW_CONFIDENCE_THRESHOLD
    ELSE Min(4000 + 58 * ((100 * VoteOf(predicted_verdict, evidence))
                             \div TotalWeight(evidence)), 9800)

\* a vote that follows the top candidate
WinningVerdictOfTop(evidence) == evidence[1].verdict

\* max(votes, key = votes.get): the first key holding the largest vote
WinningVerdict(evidence) ==
    LET keys == VoteKeys(<<VERDICT_TRUE, VERDICT_FALSE, VERDICT_UNCERTAIN>>, evidence)
        best == CHOOSE i \in 1..Len(keys) :
                    /\ \A j \in 1..Len(keys) :
                          VoteOf(keys[j], evidence) <= VoteOf(keys[i], evidence)
                    /\ \A j \in 1..(i - 1) :
                          VoteOf(keys[j], evidence) < VoteOf(keys[i], evidence)
    IN  keys[best]

\* ReasoningAgent._fallback_reasoning
FallbackReasoning(claim_text, normalized_claim, evidence) ==
    IF evidence = <<>>
    THEN [claim_text |-> claim_text, normalized_claim |-> normalized_claim,
          verdict |-> VERDICT_UNCERTAIN, confidence |-> 3000,
          explanation |-> "Insufficient evidence in database"]
    ELSE [claim_text |-> claim_text, normalized_claim |-> normalized_claim,
          verdict |-> WinningVerdict(evidence),
          confidence |-> ConsensusConfidence(evidence, WinningVerdict(evidence)),
          explanation |-> "Based on similar claims in database"]

\* what the reasoning LLM can answer: JSON with a verdict and a confidence
\* (a verdict outside the three and a confidence outside (0.01, 1] included),
\* text that is no JSON, or no answer at all
LLMReplies ==
    {[kind |-> "json", verdict |-> VERDICT_TRUE, confidence |-> 9000],
     [kind |-> "json", verdict |-> VERDICT_FALSE, confidence |-> 5000],
     [kind |-> "json", verdict |-> "Mostly True", confidence |-> 0],
     [kind |-> "malformed", verdict |-> "", confidence |-> 0],
     [kind |-> "fail", verdict |-> "", confidence |-> 0]}

\* ReasoningAgent.reason, given the LLM's reply
Reason(claim_text, normalized_claim, evidence, reply) ==
    IF reply.kind = "json"
    THEN LET verdict == IF reply.verdict \in Verdicts
                        THEN reply.verdict ELSE VERDICT_UNCERTAIN
             confidence == IF reply.confidence <= 100 \/ reply.confidence > 10000
                           THEN ConsensusConfidence(evidence, verdict)
                           ELSE reply.confidence
         IN  [claim_text |-> claim_text, normalized_claim |-> normalized_claim,
              verdict |-> verdict, confidence |-> confidence,
              explanation |-> "llm"]
    ELSE FallbackReasoning(claim_text, normalized_claim, evidence)

\* reason_node.  raised: reasoner.reason (or building its arguments) raised;
\* iterating over a retrieved_evidence of None raises too.
ReasonNode(s, reply, raised) ==
    LET t == Visit(s, "reasoner", "memory")
        nc == s.normalized_claim[1]
    IN  IF ~raised /\ s.retrieved_evidence # NONE
        THEN [t EXCEPT !.verification_result =
                 Some(Reason(nc.original_text, nc.normalized_text,
                             s.retrieved_evidence[1], reply)
                      @@ [web_search_used |-> s.web_search_used])]
        ELSE [t EXCEPT !.errors = Append(@, "Reasoning error"),
                       !.verification_result =
                 Some([claim_text |-> nc.original_text,
                       normalized_claim |-> nc.normalized_text,
                       verdict |-> VERDICT_UNCERTAIN,
                       confidence |-> 3000,
                       explanation |-> "Error during reasoning",
                       web_search_used |-> FALSE])]

(***************************************************************************)
(* memory.py: MemoryUpdateAgent.update_or_create, and memory_node around   *)
(* it.  The dedup query and the store write are two calls to the store;    *)
(* other requests run between them.                                        *)
(***************************************************************************)
MemoryUpdateResult(action, claim_id, seen_count) ==
    [action |-> action, claim_id |-> claim_id, seen_count |-> seen_count]

\* memory_node's except branch
MemoryNodeFailed(s) ==
    [s EXCEPT !.errors = Append(@, "Memory update error"),
              !.memory_update_result = Some(MemoryUpdateResult("error", 0, 0))]

\* a dedup query that never finds the stored record
DedupReadBlind(s, embed_ok, store_ok, results, today) ==
    IF embed_ok
        THEN [s EXCEPT !.pc = "memory_write", !.existing = NONE,
                       !.call_now = today]
        ELSE MemoryNodeFailed(Visit(s, "memory", "END"))

\* update_or_create up to `now = datetime.now()`: the embedding and the dedup
\* query.  embed_ok: both _get_embedding calls returned; results: what
\* retriever.search(normalized_claim, k = 1, apply_time_decay = False) returned.
DedupRead(s, embed_ok, store_ok, results, today) ==
    IF embed_ok
        THEN [s EXCEPT !.pc = "memory_write",
                       !.existing = SimilarClaimOf(results, SIMILARITY_THRESHOLD),
                       !.call_now = today]
        ELSE MemoryNodeFailed(Visit(s, "memory", "END"))

\* a merge that counts the submission twice and takes the new confidence
MergePayloadOvercount(existing, verification, call_now) ==
    [seen_count |-> existing.seen_count + 2,
     last_seen |-> IsoTimestamp(call_now),
     confidence |-> verification.confidence]

\* the payload update_or_create passes to set_payload
MergePayload(existing, verification, call_now) ==
    [seen_count |-> existing.seen_count + 1,
     last_seen |-> IsoTimestamp(call_now),
     confidence |-> Max(existing.confidence, verification.confidence)]

\* client.overwrite_payload(payload, points = [id]): the payload is replaced
OverwritePayload(st, id, payload) ==
    [st EXCEPT ![id] = payload]

\* a set_payload that also stamps the record with the time of the merge
SetPayloadRestamping(st, id, payload) ==
    [st EXCEPT ![id] = [@ EXCEPT !.seen_count = payload.seen_count,
                                 !.last_seen = payload.last_seen,
                                 !.confidence = payload.confidence,
                                 !.timestamp = payload.last_seen]]

\* client.set_payload(payload, points = [id]): the named keys are overwritten
SetPayload(st, id, payload) ==
    [st EXCEPT ![id] = [@ EXCEPT !.seen_count = payload.seen_count,
                                 !.last_seen = payload.last_seen,
                                 !.confidence = payload.confidence]]

\* a new payload whose counter starts at 0 and whose timestamp is unset
NewPayloadUncounted(verification, call_now) ==
    [claim_text |-> verification.claim_text,
     normalized_text |-> verification.normalized_claim,
     verdict |-> verification.verdict,
     confidence |-> verification.confidence,
     explanation |-> verification.explanation,
     source |-> "user_verification",
     source_reliability |-> 70,
     timestamp |-> [kind |-> "missing", day |-> 0],
     first_seen |-> IsoTimestamp(call_now),
     last_seen |-> IsoTimestamp(call_now),
     seen_count |-> 0]

\* the payload of a new claim
NewPayload(verification, call_now) ==
    [claim_text |-> verification.claim_text,
     normalized_text |-> verification.normalized_claim,
     verdict |-> verification.verdict,
     confidence |-> verification.confidence,
     explanation |-> verification.explanation,
     source |-> "user_verification",
     source_reliability |-> 70,
     timestamp |-> IsoTimestamp(call_now),
     first_seen |-> IsoTimestamp(call_now),
     last_seen |-> IsoTimestamp(call_now),
     seen_count |-> 1]

\* an upsert that replaces the stored records similar to the new one
UpsertReplacingSimilar(st, id, payload) ==
    [i \in {j \in DOMAIN st : Sim(st[j].normalized_text, payload.normalized_text)
                                < SIMILARITY_THRESHOLD} \cup {id}
        |-> IF i = id THEN payload ELSE st[i]]

\* client.upsert(points = [PointStruct(id, vector, payload)])
Upsert(st, id, payload) ==
    [i \in DOMAIN st \cup {id} |-> IF i = id THEN payload ELSE st[i]]

\* a write that sets the payload of the match and upserts a new record too
StoreAfterWriteBoth(st, s, id, write_ok) ==
    IF ~write_ok THEN st
    ELSE LET created == Upsert(st, id, NewPayload(s.verification_result[1],
                                                  s.call_now))
         IN  IF s.existing # NONE
             THEN SetPayload(created, s.existing[1].id,
                             MergePayload(s.existing[1], s.verification_result[1],
                                          s.call_now))
             ELSE created

\* the store after update_or_create's write
StoreAfterWrite(st, s, id, write_ok) ==
    IF ~write_ok THEN st
    ELSE IF s.existing # NONE
    THEN SetPayload(st, s.existing[1].id,
                    MergePayload(s.existing[1], s.verification_result[1], s.call_now))
    ELSE Upsert(st, id, NewPayload(s.verification_result[1], s.call_now))

\* a result that reports the write as done whether it was or not
UpdateOrCreateResultOptimistic(s, id, write_ok) ==
    IF s.existing # NONE
    THEN MemoryUpdateResult("updated", s.existing[1].id,
                            s.existing[1].seen_count + 1)
    ELSE MemoryUpdateResult("created", id, 1)

\* a result that reports the count read before the merge
UpdateOrCreateResultStale(s, id, write_ok) ==
    IF s.existing # NONE
    THEN MemoryUpdateResult(IF write_ok THEN "updated" ELSE "skipped",
                            s.existing[1].id, s.existing[1].seen_count)
    ELSE IF write_ok
         THEN MemoryUpdateResult("created", id, 1)
         ELSE MemoryUpdateResult("skipped", 0, 0)

\* what update_or_create returns, and memory_node stores in the state
UpdateOrCreateResult(s, id, write_ok) ==
    IF s.existing # NONE
    THEN IF write_ok
         THEN MemoryUpdateResult("updated", s.existing[1].id,
                                 s.existing[1].seen_count + 1)
         ELSE MemoryUpdateResult("skipped", s.existing[1].id,
                                 s.existing[1].seen_count)
    ELSE IF write_ok
         THEN MemoryUpdateResult("created", id, 1)
         ELSE MemoryUpdateResult("skipped", 0, 0)

\* memory_node after update_or_create returned
MemoryWritten(s, id, write_ok) ==
    [Visit(s, "memory", "END") EXCEPT
        !.memory_update_result = Some(UpdateOrCreateResult(s, id, write_ok))]

\* ClaimVerificationPipeline.verify: the response built from the final
\* state; final_state["retrieved_evidence"][:5] raises on None
Response(s) ==
    IF s.retrieved_evidence = NONE THEN NONE
    ELSE Some([normalized_claim |-> s.normalized_claim,
               cache_hit |-> s.cache_hit,
               web_search_used |-> s.web_search_used,
               web_search_results |-> s.web_search_results,
               evidence |-> SubSeq(s.retrieved_evidence[1], 1,
                                   Min(5, Len(s.retrieved_evidence[1]))),
               verification |-> s.verification_result,
               memory |-> s.memory_update_result,
               errors |-> s.errors])

\* api_server.verify_claim: the response built from the final state
ApiResponse(s) ==
    [normalized_claim |-> s.normalized_claim,
     cache_hit |-> s.cache_hit,
     verification_result |-> s.verification_result,
     retrieved_evidence |-> s.retrieved_evidence,
     web_search_results |-> s.web_search_results,
     web_search_used |-> s.web_search_used,
     seen_count |-> IF s.memory_update_result # NONE
                    THEN s.memory_update_result[1].seen_count ELSE 0]

(***************************************************************************)
(* memory.py: MemoryUpdateAgent.batch_upsert, the bulk ingestion.          *)
(***************************************************************************)
\* dict.get(key, default) on an optional key
Get(field, default) == IF field = NONE THEN default ELSE field[1]

\* the claim dictionaries a caller passes: what data_ingestion builds from a
\* dataset row, a dictionary that holds the claim text only, and one whose
\* claim text is empty
IngestClaims ==
    {[claim_text |-> "X", verdict |-> Some(VERDICT_TRUE),
      confidence |-> Some(9000), source |-> Some("Curated-Facts"),
      source_reliability |-> Some(95), timestamp |-> Some(IsoTimestamp(0))],
     [claim_text |-> "X", verdict |-> NONE, confidence |-> NONE,
      source |-> NONE, source_reliability |-> NONE, timestamp |-> NONE],
     [claim_text |-> "", verdict |-> Some(VERDICT_FALSE),
      confidence |-> Some(9000), source |-> Some("Curated-Facts"),
      source_reliability |-> Some(95), timestamp |-> Some(IsoTimestamp(0))]}

\* the chunk size of batch_upsert
batch_size == 100

\* the batches of the model
Batches == UNION {[1..n -> IngestClaims] : n \in 1..MaxBatch}

\* dataset rows of the two canonical claims, stamped SearchEpoch days ago and
\* today
SearchClaims ==
    {[claim_text |-> text, verdict |-> Some(VERDICT_TRUE),
      confidence |-> Some(9000), source |-> Some("Curated-Facts"),
      source_reliability |-> Some(95), timestamp |-> Some(IsoTimestamp(day))] :
        text \in {"X", "P"}, day \in {0, SearchEpoch}}

\* the rows a caller of batch_upsert passes, one with a confidence of 1.5
\* among them: batch_upsert takes the value as it comes
UncheckedClaims ==
    IngestClaims \cup
    {[claim_text |-> "X", verdict |-> Some(VERDICT_TRUE),
      confidence |-> Some(15000), source |-> Some("Curated-Facts"),
      source_reliability |-> Some(95), timestamp |-> Some(IsoTimestamp(0))]}
UncheckedBatches == UNION {[1..n -> UncheckedClaims] : n \in 1..MaxBatch}

\* dataset rows of the two canonical claims, stamped today and a day more
\* than the cache keeps a verdict ago
RankedClaims ==
    {[claim_text |-> text, verdict |-> Some(VERDICT_TRUE),
      confidence |-> Some(9000), source |-> Some("Curated-Facts"),
      source_reliability |-> Some(95), timestamp |-> Some(IsoTimestamp(day))] :
        text \in {"X", "P"}, day \in {0, CACHE_MAX_AGE_DAYS + 1}}

\* dataset rows of one claim under each verdict a row can carry (a row
\* without a verdict is stored as "Unknown"), from sources of no, half and
\* high reliability
ReasonClaims ==
    {[claim_text |-> "X", verdict |-> verdict,
      confidence |-> Some(9000), source |-> Some("Curated-Facts"),
      source_reliability |-> Some(reliability),
      timestamp |-> Some(IsoTimestamp(0))] :
        verdict \in {Some(v) : v \in Verdicts} \cup {NONE},
        reliability \in {0, 45, 90}}

\* dataset rows of a canonical claim whose timestamp is not what isoformat()
\* writes
UndatedClaims ==
    {[claim_text |-> "X", verdict |-> Some(VERDICT_TRUE),
      confidence |-> Some(9000), source |-> Some("Curated-Facts"),
      source_reliability |-> Some(95), timestamp |-> Some(timestamp)] :
        timestamp \in {NoTimestamp, BadTimestamp, SpacedTimestamp(0)}}

\* datasets of one claim repeated, that fill up to three chunks: a chunk to
\* the last point, one point more, and two chunks and a point
BulkSizes == {1, batch_size, batch_size + 1, 2 * batch_size + 1}
BulkBatches ==
    {[i \in 1..n |-> claim] :
        n \in BulkSizes, claim \in {c \in IngestClaims : c.claim_text # ""}}

(***************************************************************************)
(* data_ingestion.py                                                       *)
(***************************************************************************)
\* the claim texts of dataset rows: a claim, the same claim capitalised and
\* with spaces around it, another claim, and a blank text
DatasetTexts == {"flat", " Flat ", "wet", " "}

\* str.lower()
Lower(text) ==
    CASE text = " Flat " -> " flat "
      [] OTHER -> text

\* str.strip()
Strip(text) ==
    CASE text = " Flat " -> "Flat"
      [] text = " flat " -> "flat"
      [] text = " " -> ""
      [] OTHER -> text

\* a key that takes the text as it is
DedupKeyExact(text) == text

\* claim["claim_text"].lower().strip()
DedupKey(text) == Strip(Lower(text))

\* what the loaders yield: rows of these texts with one of two verdicts, up
\* to MaxDataset of them
DatasetRows ==
    {[claim_text |-> text, verdict |-> Some(verdict),
      confidence |-> Some(9000), source |-> Some("Curated-Facts"),
      source_reliability |-> Some(95), timestamp |-> Some(IsoTimestamp(0))] :
        text \in DatasetTexts, verdict \in {VERDICT_TRUE, VERDICT_FALSE}}
Datasets == UNION {[1..n -> DatasetRows] : n \in 1..MaxDataset}

\* ingest_all_datasets: the loop that removes duplicates by claim text
RECURSIVE UniqueClaims(_, _, _)
UniqueClaims(all_claims, seen, unique_claims) ==
    IF all_claims = <<>> THEN unique_claims
    ELSE LET claim == Head(all_claims)
             text == DedupKey(claim.claim_text)
         IN  IF text \notin seen /\ text # ""
             THEN UniqueClaims(Tail(all_claims), seen \cup {text},
                               Append(unique_claims, claim))
             ELSE UniqueClaims(Tail(all_claims), seen, unique_claims)

\* the payload batch_upsert builds for a claim
BatchPayload(claim, call_now) ==
    [claim_text |-> claim.claim_text,
     normalized_text |-> claim.claim_text,
     verdict |-> Get(claim.verdict, "Unknown"),
     confidence |-> Get(claim.confidence, 8000),
     explanation |-> "",
     source |-> Get(claim.source, "Unknown"),
     source_reliability |-> Get(claim.source_reliability, 70),
     timestamp |-> Get(claim.timestamp, IsoTimestamp(call_now)),
     first_seen |-> IsoTimestamp(call_now),
     last_seen |-> IsoTimestamp(call_now),
     seen_count |-> 1]

\* the first loop of batch_upsert: the points of the claims that have a text
\* and whose embedding succeeded, in input order, each with a generated id
BatchPoints(claims_data, embed_oks, id, call_now) ==
    LET kept == SelectSeq([i \in 1..Len(claims_data) |-> i],
                          LAMBDA i : /\ claims_data[i].claim_text # ""
                                     /\ embed_oks[i])
    IN  [j \in 1..Len(kept) |->
            [id |-> id + j - 1,
             payload |-> BatchPayload(claims_data[kept[j]], call_now)]]

\* an upsert that leaves out the points whose text the store already holds
UpsertPointsUnlessStored(st, points) ==
    LET fresh == SelectSeq(points,
                           LAMBDA point :
                               \A id \in DOMAIN st :
                                   st[id].normalized_text
                                       # point.payload.normalized_text)
    IN  [i \in DOMAIN st \cup {fresh[j].id : j \in 1..Len(fresh)} |->
            IF i \in DOMAIN st THEN st[i]
            ELSE fresh[CHOOSE j \in 1..Len(fresh) : fresh[j].id = i].payload]

\* client.upsert(points = batch): every point is written under its id, the
\* last of the points that share an id wins
UpsertPoints(st, points) ==
    LET At(i) == {j \in 1..Len(points) : points[j].id = i}
        Last(i) == CHOOSE j \in At(i) : \A k \in At(i) : k <= j
    IN  [i \in DOMAIN st \cup {points[j].id : j \in 1..Len(points)} |->
            IF At(i) # {} THEN points[Last(i)].payload ELSE st[i]]

\* range(0, len(points), batch_size), as chunk numbers i // batch_size
ChunkCount(points) == (Len(points) + batch_size - 1) \div batch_size

\* points[i:i + batch_size] of chunk number c
Chunk(points, c) ==
    SubSeq(points, c * batch_size + 1,
           Min((c + 1) * batch_size, Len(points)))

\* a second loop that stops at the first chunk whose upsert fails
RECURSIVE BatchStoreUntilFailure(_, _, _, _)
BatchStoreUntilFailure(st, points, chunk_oks, c) ==
    IF c >= ChunkCount(points) \/ ~chunk_oks[c + 1] THEN st
    ELSE BatchStoreUntilFailure(UpsertPoints(st, Chunk(points, c)),
                                points, chunk_oks, c + 1)

\* the second loop of batch_upsert, from chunk number c on: each chunk is
\* upserted by a call of its own, which succeeds or fails as a whole
RECURSIVE BatchStore(_, _, _, _)
BatchStore(st, points, chunk_oks, c) ==
    IF c >= ChunkCount(points) THEN st
    ELSE BatchStore(IF chunk_oks[c + 1] THEN UpsertPoints(st, Chunk(points, c))
                    ELSE st,
                    points, chunk_oks, c + 1)

\* success_count after the second loop
RECURSIVE SuccessCount(_, _, _)
SuccessCount(points, chunk_oks, c) ==
    IF c >= ChunkCount(points) THEN 0
    ELSE (IF chunk_oks[c + 1] THEN Len(Chunk(points, c)) ELSE 0)
         + SuccessCount(points, chunk_oks, c + 1)

\* the errors list: one entry for each claim without text or whose embedding
\* failed, in input order, then one for each chunk whose upsert failed
BatchErrors(claims_data, embed_oks, points, chunk_oks) ==
    LET n == Len(claims_data)
        IsError(i) == claims_data[i].claim_text = "" \/ ~embed_oks[i]
        claim_errors ==
            SelectSeq([i \in 1..n |-> [index |-> i - 1, failed |-> IsError(i)]],
                      LAMBDA e : e.failed)
        chunk_errors ==
            SelectSeq([c \in 1..ChunkCount(points) |->
                          [batch |-> c - 1, failed |-> ~chunk_oks[c]]],
                      LAMBDA e : e.failed)
    IN  [i \in 1..Len(claim_errors) |-> [index |-> claim_errors[i].index]]
        \o [i \in 1..Len(chunk_errors) |-> [batch |-> chunk_errors[i].batch]]

\* what batch_upsert returns
BatchResult(claims_data, embed_oks, points, chunk_oks) ==
    LET errors == BatchErrors(claims_data, embed_oks, points, chunk_oks)
    IN  [success_count |-> SuccessCount(points, chunk_oks, 0),
         error_count |-> Len(errors),
         errors |-> errors]

\* the embedding calls batch_upsert makes that fail
EmbedFailures(claims_data, embed_oks) ==
    Cardinality({i \in 1..Len(claims_data) :
                    claims_data[i].claim_text # "" /\ ~embed_oks[i]})

\* the chunk upserts batch_upsert makes that fail
ChunkFailures(points, chunk_oks) ==
    Cardinality({c \in 1..ChunkCount(points) : ~chunk_oks[c]})

\* an ensure_collection_exists that finds no collection listed and creates
\* none
EnsureCollectionExistsUnlisted(exists) ==
    {[collection_exists |-> exists, value |-> FALSE, failures |-> 0]}

\* MemoryUpdateAgent.ensure_collection_exists: what it can leave and return.
\* get_collections fails: nothing changes, False.  The collection is listed:
\* True.  It is not: create_collection fails (False, no collection), or it
\* succeeds and a create_payload_index fails (False, the collection exists),
\* or all succeed (True).
EnsureCollectionExists(exists) ==
    {[collection_exists |-> exists, value |-> FALSE, failures |-> 1]}
    \cup (IF exists
          THEN {[collection_exists |-> TRUE, value |-> TRUE, failures |-> 0]}
          ELSE {[collection_exists |-> FALSE, value |-> FALSE, failures |-> 1],
                [collection_exists |-> TRUE, value |-> FALSE, failures |-> 1],
                [collection_exists |-> TRUE, value |-> TRUE, failures |-> 0]})

(***************************************************************************)
(* The state machine.                                                      *)
(***************************************************************************)
Cost(ok) == IF ok THEN 0 ELSE 1

\* a call to the store on the collection: without the collection it fails,
\* and that failure is none of the budgeted ones
StoreCost(ok) == IF collection_exists THEN Cost(ok) ELSE 0

\* n external calls fail: within the budget, when there is one
Fault(n) ==
    IF faultsLeft < 0 THEN faultsLeft' = faultsLeft
    ELSE /\ n <= faultsLeft
         /\ faultsLeft' = faultsLeft - n

\* a request enters: ClaimVerificationPipeline.verify(text)
Verify(r) ==
    /\ r <= env.workers
    /\ state[r].pc = "idle"
    /\ requestsLeft > 0
    /\ \E text \in env.texts, image_path \in env.images :
          state' = [state EXCEPT ![r] =
                       IF VerifyAccepts(text, image_path)
                       THEN [InitialState(text) EXCEPT !.image_path = image_path]
                       ELSE @]
    /\ requestsLeft' = requestsLeft - 1
    /\ UNCHANGED <<store, nextId, now, web_search_agent, env,
                   collection_exists, returned, faultsLeft>>

RunNormalizer(r) ==
    /\ state[r].pc = "normalizer"
    /\ \E llm_ok, embed_ok \in BOOLEAN, image \in {"ok", "fail", "raise"} :
          /\ Truthy(state[r].raw_text) \/ llm_ok
          /\ state[r].image_path = NONE => image = "ok"
          /\ Fault(Cost(llm_ok) + Cost(embed_ok) + Cost(image = "ok"))
          /\ state' = [state EXCEPT ![r] =
                          NormalizeNode(@, llm_ok, image, embed_ok)]
    /\ UNCHANGED <<store, nextId, now, web_search_agent, env,
                   collection_exists, returned, requestsLeft>>

\* the days datetime.now() can return: time does not run backwards
Today == now..env.lastDay

RunRetriever(r) ==
    /\ state[r].pc = "retriever"
    /\ \E embed_ok, store_ok \in BOOLEAN, today \in Today :
          /\ embed_ok \/ store_ok
          /\ Fault(Cost(embed_ok \/ ~Embeddable(
                           state[r].normalized_claim[1].normalized_text))
                   + StoreCost(store_ok))
          /\ (embed_ok /\ store_ok) => collection_exists
          /\ now' = today
          /\ Embeddable(state[r].normalized_claim[1].normalized_text) \/ ~embed_ok
          /\ \E results \in Search(state[r].normalized_claim[1].normalized_text,
                                   DEFAULT_TOP_K, TRUE, store_ok, today) :
                state' = [state EXCEPT ![r] =
                             RetrieveNode(@, embed_ok, store_ok, results, today)]
    /\ UNCHANGED <<store, nextId, web_search_agent, env, collection_exists,
                   returned, requestsLeft>>

RunWebSearch(r) ==
    /\ state[r].pc = "web_search"
    /\ \E outcome \in {"results", "empty", "fail", "malformed"} :
          /\ WebSearchSkipped(state[r], web_search_agent) => outcome = "empty"
          /\ Fault(Cost(outcome \in {"results", "empty"}))
          /\ state' = [state EXCEPT ![r] =
                          WebSearchNode(@, web_search_agent, outcome)]
    /\ UNCHANGED <<store, nextId, now, web_search_agent, env,
                   collection_exists, returned, requestsLeft>>

\* a reason_node that appends to one errors list held by every running request
RunReasonerSharedErrors(r) ==
    /\ state[r].pc = "reasoner"
    /\ \E reply \in LLMReplies, raised \in BOOLEAN :
          /\ raised => reply.kind = "fail"
          /\ Fault(Cost(reply.kind = "json"))
          /\ state' = [q \in Slots |->
                          IF q = r THEN ReasonNode(state[r], reply, raised)
                          ELSE IF state[q].pc # "idle"
                          THEN [state[q] EXCEPT !.errors =
                                   ReasonNode(state[r], reply, raised).errors]
                          ELSE state[q]]
    /\ UNCHANGED <<store, nextId, now, web_search_agent, env,
                   collection_exists, returned, requestsLeft>>

RunReasoner(r) ==
    /\ state[r].pc = "reasoner"
    /\ \E reply \in LLMReplies, raised \in BOOLEAN :
          /\ raised => reply.kind = "fail"
          /\ Fault(Cost(reply.kind = "json"))
          /\ state' = [state EXCEPT ![r] = ReasonNode(@, reply, raised)]
    /\ UNCHANGED <<store, nextId, now, web_search_agent, env,
                   collection_exists, returned, requestsLeft>>

\* update_or_create, first half: embed, get_similar_claim, now
RunMemoryRead(r) ==
    /\ state[r].pc = "memory"
    /\ \E embed_ok, store_ok \in BOOLEAN, today \in Today :
          /\ embed_ok \/ store_ok
          /\ Fault(Cost(embed_ok \/ ~Embeddable(
                           state[r].verification_result[1].normalized_claim))
                   + StoreCost(store_ok))
          /\ (embed_ok /\ store_ok) => collection_exists
          /\ now' = today
          /\ Embeddable(state[r].verification_result[1].normalized_claim)
                \/ ~embed_ok
          /\ \E results \in Search(state[r].verification_result[1].normalized_claim,
                                   1, FALSE, store_ok, today) :
                state' = [state EXCEPT ![r] =
                             DedupRead(@, embed_ok, store_ok, results, today)]
    /\ UNCHANGED <<store, nextId, web_search_agent, env, collection_exists,
                   returned, requestsLeft>>

\* update_or_create, second half: set_payload or upsert
RunMemoryWrite(r) ==
    /\ state[r].pc = "memory_write"
    /\ \E write_ok \in BOOLEAN :
          /\ write_ok => collection_exists
          /\ Fault(StoreCost(write_ok))
          /\ store' = StoreAfterWrite(store, state[r], nextId, write_ok)
          /\ nextId' = IF state[r].existing = NONE THEN nextId + 1 ELSE nextId
          /\ state' = [state EXCEPT ![r] = MemoryWritten(@, nextId, write_ok)]
    /\ UNCHANGED <<now, web_search_agent, env, collection_exists, returned,
                   requestsLeft>>

\* verify returns the response (or raises building it), verify_claim
\* returns its own; the state is dropped
ReturnResponse(r) ==
    /\ state[r].pc = "END"
    /\ state' = [state EXCEPT ![r] =
                    IF @.entry = "verify" /\ Response(@) = NONE
                    THEN [@ EXCEPT !.pc = "raised"]
                    ELSE IdleState]
    /\ UNCHANGED <<store, nextId, now, web_search_agent, env,
                   collection_exists, returned, requestsLeft,
                   faultsLeft>>

Step(r) ==
    \/ RunNormalizer(r)
    \/ RunRetriever(r)
    \/ RunWebSearch(r)
    \/ RunReasoner(r)
    \/ RunMemoryRead(r)
    \/ RunMemoryWrite(r)
    \/ ReturnResponse(r)

Next ==
    \/ \E r \in Slots : Verify(r)
    \/ \E r \in Slots : Step(r)

\* a request enters through POST /verify: api_server.verify_claim, which
\* runs the same graph on the text that passed ClaimRequest and
\* validate_claim_input, and answers 400 or 422 otherwise
PostVerify(r) ==
    /\ r <= env.workers
    /\ state[r].pc = "idle"
    /\ requestsLeft > 0
    /\ \E text \in env.texts :
          state' = [state EXCEPT ![r] =
                       IF ClaimRequestAccepts(text)
                          /\ ValidateClaimInput(text) # NONE
                       THEN [InitialState(ValidateClaimInput(text)[1])
                                EXCEPT !.entry = "api"]
                       ELSE @]
    /\ requestsLeft' = requestsLeft - 1
    /\ UNCHANGED <<store, nextId, now, web_search_agent, env,
                   collection_exists, returned, faultsLeft>>

\* memory_agent.batch_upsert(claims_data), run while no request is in flight
BatchUpsert ==
    /\ \A r \in Slots : state[r].pc = "idle"
    /\ requestsLeft > 0
    /\ \E claims_data \in env.batches, today \in Today,
          ensured \in EnsureCollectionExists(collection_exists) :
          /\ nextId + Len(claims_data) - 1 <= MaxId
          /\ \E failed \in SUBSET {1, Len(claims_data)} :
                LET embed_oks == [i \in 1..Len(claims_data) |-> i \notin failed]
                    points == BatchPoints(claims_data, embed_oks, nextId, today)
                IN  \E chunk_oks \in [1..ChunkCount(points) -> BOOLEAN] :
                       /\ \A c \in 1..ChunkCount(points) :
                             chunk_oks[c] => ensured.collection_exists
                       /\ Fault(ensured.failures
                                + EmbedFailures(claims_data, embed_oks)
                                + (IF ensured.collection_exists
                                   THEN ChunkFailures(points, chunk_oks) ELSE 0))
                       /\ store' = BatchStore(store, points, chunk_oks, 0)
                       /\ collection_exists' = ensured.collection_exists
                       /\ nextId' = nextId + Len(points)
                       /\ now' = today
                       /\ returned' =
                             Some([op |-> "batch_upsert",
                                   claims_data |-> claims_data,
                                   value |-> BatchResult(claims_data, embed_oks,
                                                         points, chunk_oks)])
    /\ requestsLeft' = requestsLeft - 1
    /\ UNCHANGED <<state, web_search_agent, env>>

\* MemoryUpdateAgent.delete_claim(claim_id), for the id of a stored record or
\* an id the store does not hold.  ok: client.delete returned.
DeleteClaim ==
    /\ \A r \in Slots : state[r].pc = "idle"
    /\ requestsLeft > 0
    /\ \E claim_id \in DOMAIN store \cup {nextId}, ok \in BOOLEAN :
          /\ ok => collection_exists
          /\ Fault(StoreCost(ok))
          /\ store' = IF ok THEN [i \in DOMAIN store \ {claim_id} |-> store[i]]
                       ELSE store
          /\ returned' = Some([op |-> "delete_claim", value |-> ok])
    /\ requestsLeft' = requestsLeft - 1
    /\ UNCHANGED <<nextId, now, state, web_search_agent, env,
                   collection_exists>>

\* MemoryUpdateAgent.ensure_collection_exists, called on its own
CallEnsureCollectionExists ==
    /\ \A r \in Slots : state[r].pc = "idle"
    /\ requestsLeft > 0
    /\ \E ensured \in EnsureCollectionExists(collection_exists) :
          /\ Fault(ensured.failures)
          /\ collection_exists' = ensured.collection_exists
          /\ returned' = Some([op |-> "ensure_collection_exists",
                               value |-> ensured.value])
    /\ requestsLeft' = requestsLeft - 1
    /\ UNCHANGED <<store, nextId, now, state, web_search_agent, env>>

\* MemoryUpdateAgent.clear_collection.  delete_ok: client.delete_collection
\* returned, and the collection and its records are gone; then
\* ensure_collection_exists runs and clear_collection returns what it returns.
ClearCollection ==
    /\ \A r \in Slots : state[r].pc = "idle"
    /\ requestsLeft > 0
    /\ \E delete_ok \in BOOLEAN :
          IF delete_ok
          THEN \E ensured \in EnsureCollectionExists(FALSE) :
                  /\ Fault(ensured.failures)
                  /\ store' = <<>>
                  /\ collection_exists' = ensured.collection_exists
                  /\ returned' = Some([op |-> "clear_collection",
                                       value |-> ensured.value])
          ELSE /\ Fault(1)
               /\ store' = store
               /\ collection_exists' = collection_exists
               /\ returned' = Some([op |-> "clear_collection", value |-> FALSE])
    /\ requestsLeft' = requestsLeft - 1
    /\ UNCHANGED <<nextId, now, state, web_search_agent, env>>

\* ingest_all_datasets: ensure_collection_exists, the loaders' rows without
\* their duplicates, batch_upsert of these (which ensures the collection
\* again), and the counts it returns
IngestAllDatasets ==
    /\ \A r \in Slots : state[r].pc = "idle"
    /\ requestsLeft > 0
    /\ \E all_claims \in env.batches, today \in Today,
          first \in EnsureCollectionExists(collection_exists) :
          LET unique_claims == UniqueClaims(all_claims, {}, <<>>)
          IN  /\ nextId + Len(unique_claims) - 1 <= MaxId
              /\ \E ensured \in EnsureCollectionExists(first.collection_exists),
                    failed \in SUBSET {1, Len(unique_claims)} :
                    LET embed_oks == [i \in 1..Len(unique_claims) |->
                                         i \notin failed]
                        points == BatchPoints(unique_claims, embed_oks,
                                              nextId, today)
                    IN  \E chunk_oks \in [1..ChunkCount(points) -> BOOLEAN] :
                           /\ \A c \in 1..ChunkCount(points) :
                                 chunk_oks[c] => ensured.collection_exists
                           /\ Fault(first.failures + ensured.failures
                                    + EmbedFailures(unique_claims, embed_oks)
                                    + (IF ensured.collection_exists
                                       THEN ChunkFailures(points, chunk_oks)
                                       ELSE 0))
                           /\ store' = BatchStore(store, points, chunk_oks, 0)
                           /\ collection_exists' = ensured.collection_exists
                           /\ nextId' = nextId + Len(points)
                           /\ now' = today
                           /\ returned' =
                                 Some([op |-> "ingest_all_datasets",
                                       all_claims |-> all_claims,
                                       claims_data |-> unique_claims,
                                       value |->
                                          [total_processed |-> Len(unique_claims),
                                           success_count |->
                                              BatchResult(unique_claims, embed_oks,
                                                          points, chunk_oks).success_count,
                                           error_count |->
                                              BatchResult(unique_claims, embed_oks,
                                                          points, chunk_oks).error_count]])
    /\ requestsLeft' = requestsLeft - 1
    /\ UNCHANGED <<state, web_search_agent, env>>

\* RetrievalAgent.search(query_text, k, apply_time_decay), called on its own.
\* embed_ok: _get_embedding returned, or search raises; store_ok:
\* client.search returned `results`, or search returns the empty list.
CallSearch ==
    /\ \A r \in Slots : state[r].pc = "idle"
    /\ \E query_text \in env.texts, k \in {1, DEFAULT_TOP_K},
          apply_time_decay, embed_ok, store_ok \in BOOLEAN, today \in Today :
          /\ ~embed_ok => store_ok
          /\ (embed_ok /\ store_ok) => collection_exists
          /\ Fault(Cost(embed_ok) + StoreCost(store_ok))
          /\ now' = today
          /\ \E results \in (IF embed_ok /\ store_ok
                              THEN ClientSearch(query_text, k) ELSE {<<>>}) :
                returned' =
                   Some([op |-> "search",
                         raised |-> ~embed_ok,
                         apply_time_decay |-> apply_time_decay,
                         results |-> results,
                         value |-> SearchConvert(results, apply_time_decay, today)])
    /\ UNCHANGED <<store, nextId, state, web_search_agent, env,
                   collection_exists, requestsLeft>>

\* ReasoningAgent.reason(claim_text, normalized_claim, evidence), called on
\* its own with what the retriever finds for the claim; reply is what the LLM
\* answers
CallReason ==
    /\ \A r \in Slots : state[r].pc = "idle"
    /\ \E claim_text \in env.texts, reply \in LLMReplies :
       \E evidence \in Search(Canon(claim_text), DEFAULT_TOP_K, TRUE, TRUE, now) :
          /\ Fault(Cost(reply.kind = "json"))
          /\ returned' =
                Some([op |-> "reason",
                      evidence |-> evidence,
                      reply |-> reply,
                      value |-> Reason(claim_text, Canon(claim_text),
                                       evidence, reply)])
    /\ UNCHANGED <<store, nextId, now, state, web_search_agent, env,
                   collection_exists, requestsLeft>>

NextEntry ==
    \/ Next
    \/ \E r \in Slots : PostVerify(r)
    \/ BatchUpsert

\* the verification requests and every method of the memory agent that
\* writes to the store
NextAdmin ==
    \/ Next
    \/ BatchUpsert
    \/ DeleteClaim
    \/ ClearCollection

\* the store is searched
NextSearch == CallSearch

\* the reasoner is called
NextReason == CallReason

\* the datasets are loaded and ingested
NextDatasets == IngestAllDatasets

\* datasets are ingested and claims are verified
NextUndated ==
    \/ Next
    \/ BatchUpsert

\* datasets are ingested and the collection is cleared
NextIngest ==
    \/ BatchUpsert
    \/ ClearCollection

\* datasets are ingested, the collection is set up and cleared
NextBulk ==
    \/ BatchUpsert
    \/ CallEnsureCollectionExists
    \/ ClearCollection

\* the store a request for "x", answered False at 0.5 on day 0, leaves behind
SeedStore ==
    Upsert(<<>>, 1,
           NewPayload([claim_text |-> "x", normalized_claim |-> "X",
                       verdict |-> VERDICT_FALSE, confidence |-> 5000,
                       explanation |-> "llm"], 0))

\* the store is empty or holds one claim, requests run one at a time, any
\* external call may fail
Init ==
    /\ store \in {<<>>, SeedStore}
    /\ nextId = Cardinality(DOMAIN store) + 1
    /\ now = 0
    /\ state = [r \in Slots |-> IdleState]
    /\ web_search_agent \in BOOLEAN
    /\ env = [workers |-> 1, texts |-> RawTexts, images |-> {NONE},
              batches |-> {}, lastDay |-> MaxDay]
    /\ requestsLeft = MaxRequests
    /\ faultsLeft = -1
    /\ returned = NONE
    /\ collection_exists = TRUE

\* the store holds one claim, requests for it run concurrently
InitConc ==
    /\ store = SeedStore
    /\ nextId = 2
    /\ now = 0
    /\ state = [r \in Slots |-> IdleState]
    /\ web_search_agent = FALSE
    /\ env = [workers |-> 2, texts |-> {"x"}, images |-> {NONE},
              batches |-> {}, lastDay |-> ConcDay]
    /\ requestsLeft = ConcRequests
    /\ faultsLeft = ConcFaults
    /\ returned = NONE
    /\ collection_exists = TRUE

\* the store is empty, one claim is submitted again and again, one request at
\* a time, and at most RepeatFaults external calls fail
InitRepeat ==
    /\ store = <<>>
    /\ nextId = 1
    /\ now = 0
    /\ state = [r \in Slots |-> IdleState]
    /\ web_search_agent \in BOOLEAN
    /\ env = [workers |-> 1, texts |-> {"x"}, images |-> {NONE},
              batches |-> {}, lastDay |-> MaxDay]
    /\ requestsLeft = RepeatRequests
    /\ faultsLeft = RepeatFaults
    /\ returned = NONE
    /\ collection_exists = TRUE

\* the store holds one claim; requests for it run concurrently, on one day,
\* and at most ShareFaults external calls fail
InitShare ==
    /\ store = SeedStore
    /\ nextId = 2
    /\ now = 0
    /\ state = [r \in Slots |-> IdleState]
    /\ web_search_agent = FALSE
    /\ env = [workers |-> 2, texts |-> {"x"}, images |-> {NONE},
              batches |-> {}, lastDay |-> 0]
    /\ requestsLeft = ShareRequests
    /\ faultsLeft = ShareFaults
    /\ returned = NONE
    /\ collection_exists = TRUE

\* the store is empty, requests for one new claim run concurrently and no
\* external call fails
InitRace ==
    /\ store = <<>>
    /\ nextId = 1
    /\ now = 0
    /\ state = [r \in Slots |-> IdleState]
    /\ web_search_agent = FALSE
    /\ env = [workers |-> 2, texts |-> {"x"}, images |-> {NONE},
              batches |-> {}, lastDay |-> ConcDay]
    /\ requestsLeft = RaceRequests
    /\ faultsLeft = 0
    /\ returned = NONE
    /\ collection_exists = TRUE

\* the store is empty; texts that should not pass the input validation and
\* images are submitted through both entry points, one request at a time,
\* and datasets are ingested
InitEntry ==
    /\ store = <<>>
    /\ nextId = 1
    /\ now = 0
    /\ state = [r \in Slots |-> IdleState]
    /\ web_search_agent = FALSE
    /\ env = [workers |-> 1, texts |-> {"x", NoText} \cup InvalidTexts,
              images |-> {NONE, Some(Image)}, batches |-> Batches,
              lastDay |-> 0]
    /\ requestsLeft = EntryRequests
    /\ faultsLeft = EntryFaults
    /\ returned = NONE
    /\ collection_exists = TRUE

\* the store is empty or holds one claim; requests, ingestions of small
\* datasets, deletions and clears follow one another
InitAdmin ==
    /\ store \in {<<>>, SeedStore}
    /\ nextId = Cardinality(DOMAIN store) + 1
    /\ now = 0
    /\ state = [r \in Slots |-> IdleState]
    /\ web_search_agent = FALSE
    /\ env = [workers |-> 1, texts |-> {"x"}, images |-> {NONE},
              batches |-> Batches, lastDay |-> 0]
    /\ requestsLeft = AdminRequests
    /\ faultsLeft = AdminFaults
    /\ returned = NONE
    /\ collection_exists = TRUE

\* the store is empty and datasets of several chunks are ingested
InitIngest ==
    /\ store = <<>>
    /\ nextId = 1
    /\ now = 0
    /\ state = [r \in Slots |-> IdleState]
    /\ web_search_agent = FALSE
    /\ env = [workers |-> 1, texts |-> {}, images |-> {NONE},
              batches |-> BulkBatches, lastDay |-> 0]
    /\ requestsLeft = IngestRequests
    /\ faultsLeft = IngestFaults
    /\ returned = NONE
    /\ collection_exists = TRUE

\* the store holds SearchRecords dataset rows, ingested on day SearchEpoch;
\* the store is searched on that day and the days after it
InitSearch ==
    /\ store \in {UpsertPoints(<<>>, BatchPoints(claims_data,
                                                 [i \in 1..SearchRecords |-> TRUE],
                                                 1, SearchEpoch)) :
                     claims_data \in [1..SearchRecords -> SearchClaims]}
    /\ nextId = SearchRecords + 1
    /\ now = SearchEpoch
    /\ state = [r \in Slots |-> IdleState]
    /\ web_search_agent = FALSE
    /\ env = [workers |-> 1, texts |-> {"X"}, images |-> {NONE},
              batches |-> {}, lastDay |-> SearchEpoch + SearchDays]
    /\ requestsLeft = 0
    /\ faultsLeft = -1
    /\ returned = NONE
    /\ collection_exists = TRUE

\* the store holds up to MaxEvidence dataset rows of one claim; no request
\* runs, the reasoner is handed what the store holds on the claim
InitReason ==
    /\ store \in {UpsertPoints(<<>>, BatchPoints(claims_data,
                                                 [i \in 1..Len(claims_data) |-> TRUE],
                                                 1, 0)) :
                     claims_data \in UNION {[1..n -> ReasonClaims] :
                                               n \in 0..MaxEvidence}}
    /\ nextId = MaxEvidence + 1
    /\ now = 0
    /\ state = [r \in Slots |-> IdleState]
    /\ web_search_agent = FALSE
    /\ env = [workers |-> 1, texts |-> {"x"}, images |-> {NONE},
              batches |-> {}, lastDay |-> 0]
    /\ requestsLeft = 0
    /\ faultsLeft = -1
    /\ returned = NONE
    /\ collection_exists = TRUE

\* there is no collection yet, or an empty one, or one that holds one claim;
\* small datasets, rows without text and rows with a confidence above 1 among
\* them, are ingested, the collection is set up and cleared
InitBulk ==
    /\ store \in {<<>>, SeedStore}
    /\ nextId = 2
    /\ now = 0
    /\ state = [r \in Slots |-> IdleState]
    /\ web_search_agent = FALSE
    /\ env = [workers |-> 1, texts |-> {}, images |-> {NONE},
              batches |-> UncheckedBatches, lastDay |-> 0]
    /\ requestsLeft = IngestRequests
    /\ faultsLeft = IngestFaults
    /\ returned = NONE
    /\ collection_exists \in {exists \in BOOLEAN : store # <<>> => exists}

\* the store holds RankedRecords dataset rows, ingested on day
\* CACHE_MAX_AGE_DAYS + 1; on that day claims are verified, one at a time, and
\* no external call fails
InitRanked ==
    /\ store \in {UpsertPoints(<<>>, BatchPoints(claims_data,
                                                 [i \in 1..RankedRecords |-> TRUE],
                                                 1, CACHE_MAX_AGE_DAYS + 1)) :
                     claims_data \in [1..RankedRecords -> RankedClaims]}
    /\ nextId = RankedRecords + 1
    /\ now = CACHE_MAX_AGE_DAYS + 1
    /\ state = [r \in Slots |-> IdleState]
    /\ web_search_agent = FALSE
    /\ env = [workers |-> 1, texts |-> {"x", "p"}, images |-> {NONE},
              batches |-> {}, lastDay |-> CACHE_MAX_AGE_DAYS + 1]
    /\ requestsLeft = RankedRequests
    /\ faultsLeft = 0
    /\ returned = NONE
    /\ collection_exists = TRUE

\* the store holds one claim, stored on day 0; it is submitted again and
\* again, one request at a time, up to day MaxDay, and no external call fails
InitAged ==
    /\ store = SeedStore
    /\ nextId = 2
    /\ now = 0
    /\ state = [r \in Slots |-> IdleState]
    /\ web_search_agent = FALSE
    /\ env = [workers |-> 1, texts |-> {"x"}, images |-> {NONE},
              batches |-> {}, lastDay |-> MaxDay]
    /\ requestsLeft = RepeatRequests
    /\ faultsLeft = 0
    /\ returned = NONE
    /\ collection_exists = TRUE

\* there is no collection yet, or an empty one; the loaders yield the same
\* rows at every ingestion
InitDatasets ==
    /\ store = <<>>
    /\ nextId = 1
    /\ now = 0
    /\ state = [r \in Slots |-> IdleState]
    /\ web_search_agent = FALSE
    /\ env \in {[workers |-> 1, texts |-> {}, images |-> {NONE},
                 batches |-> {all_claims}, lastDay |-> 0] :
                   all_claims \in Datasets}
    /\ requestsLeft = IngestRequests
    /\ faultsLeft = IngestFaults
    /\ returned = NONE
    /\ collection_exists \in BOOLEAN

\* the store is empty; rows with unusual timestamps are ingested and the
\* claim is verified, on the day of the ingestion or later, one call at a time
InitUndated ==
    /\ store = <<>>
    /\ nextId = 1
    /\ now = 0
    /\ state = [r \in Slots |-> IdleState]
    /\ web_search_agent = FALSE
    /\ env = [workers |-> 1, texts |-> {"x"}, images |-> {NONE},
              batches |-> {<<claim>> : claim \in UndatedClaims},
              lastDay |-> MaxDay]
    /\ requestsLeft = UndatedRequests
    /\ faultsLeft = UndatedFaults
    /\ returned = NONE
    /\ collection_exists = TRUE

Spec == Init /\ [][Next]_vars
SpecReason == InitReason /\ [][NextReason]_vars

SpecShare == InitShare /\ [][Next]_vars

SpecBulk == InitBulk /\ [][NextBulk]_vars

SpecRanked == InitRanked /\ [][Next]_vars

SpecAged == InitAged /\ [][Next]_vars

SpecDatasets == InitDatasets /\ [][NextDatasets]_vars

SpecUndated == InitUndated /\ [][NextUndated]_vars
SpecSearch == InitSearch /\ [][NextSearch]_vars
SpecAdmin == InitAdmin /\ [][NextAdmin]_vars
SpecIngest == InitIngest /\ [][NextIngest]_vars
SpecConc == InitConc /\ [][Next]_vars
SpecRepeat == InitRepeat /\ [][Next]_vars
SpecRace == InitRace /\ [][Next]_vars
SpecEntry == InitEntry /\ [][NextEntry]_vars

(***************************************************************************)
(* Merge idempotence and the seen_count / confidence invariants.           *)
(***************************************************************************)
\* worker r's update_or_create found a match and now returns from its write
MergeReturns(r) ==
    /\ state[r].pc = "memory_write"
    /\ state'[r].pc = "END"
    /\ state[r].existing # NONE

\* C1 (as stated): every update_or_create call that finds a matching record
\* leaves the record's stored seen_count exactly 1 greater than it was, its
\* verdict unchanged and its confidence at least its previous value.
C1_MergeIncrementsStored ==
    [][\A r \in Slots : MergeReturns(r) =>
          LET id == state[r].existing[1].id
          IN  /\ store'[id].seen_count = store[id].seen_count + 1
              /\ store'[id].verdict = store[id].verdict
              /\ store'[id].confidence >= store[id].confidence]_vars

\* C1 (amended): a call that finds a matching record and whose set_payload
\* succeeds stores a seen_count exactly 1 greater than the one its dedup
\* query returned, leaves the verdict unchanged and stores the larger of the
\* confidence its dedup query returned and the new confidence; for requests
\* run one at a time these are the stored values before the call.  A call
\* whose set_payload fails leaves the store unchanged and reports "skipped".
C1_MergeIncrementsRead ==
    [][\A r \in Slots : MergeReturns(r) =>
          LET existing == state[r].existing[1]
              result == state'[r].memory_update_result[1]
          IN  IF result.action = "updated"
              THEN /\ store'[existing.id].seen_count = existing.seen_count + 1
                   /\ store'[existing.id].verdict = store[existing.id].verdict
                   /\ store'[existing.id].confidence
                        = Max(existing.confidence,
                              state[r].verification_result[1].confidence)
                   /\ env.workers = 1 =>
                         /\ existing.seen_count = store[existing.id].seen_count
                         /\ existing.confidence = store[existing.id].confidence
              ELSE /\ result.action = "skipped"
                   /\ store' = store]_vars

\* a request has merged into a stored record and raised its confidence
C1_Merged ==
    \E r \in Slots :
        /\ state[r].pc = "END"
        /\ state[r].memory_update_result # NONE
        /\ state[r].memory_update_result[1].action = "updated"
        /\ store[state[r].memory_update_result[1].claim_id].seen_count = 2
        /\ store[state[r].memory_update_result[1].claim_id].confidence = 9000

\* C2: for any number of concurrently running requests, the stored
\* seen_count of a record never decreases from one state to the next.
C2_SeenCountNeverDecreases ==
    [][\A id \in DOMAIN store :
          store'[id].seen_count >= store[id].seen_count]_vars

\* C3: the stored confidence of a record is non-decreasing across all merges
\* into it, merges whose read and write interleave included.
C3_ConfidenceNeverDecreases ==
    [][\A id \in DOMAIN store :
          store'[id].confidence >= store[id].confidence]_vars

\* C4: once N requests for the same normalized claim have all completed (the
\* one that created the record, the others merging into it, no external call
\* failing), the record's stored seen_count is N.
C4_SeenCountIsSubmissions ==
    (/\ \A r \in Slots : state[r].pc = "idle"
     /\ faultsLeft = ConcFaults)
    => store[1].seen_count = 1 + (ConcRequests - requestsLeft)

(***************************************************************************)
(* The cache decision and the two thresholds.                              *)
(***************************************************************************)
\* worker r's retrieve_node returns
RetrieveReturns(r) ==
    /\ state[r].pc = "retriever"
    /\ state'[r].pc = "web_search"

\* worker r's update_or_create returns, or raises into memory_node
UpdateOrCreateReturns(r) ==
    /\ state[r].pc \in {"memory", "memory_write"}
    /\ state'[r].pc = "END"

\* the candidates a request retrieved
EvidenceOf(s) == IF s.retrieved_evidence = NONE THEN <<>> ELSE s.retrieved_evidence[1]

\* age in days of a candidate on day `today`
AgeDays(candidate, today) == today - candidate.timestamp.day

\* C5: retrieve_node sets cache_hit = true if and only if retrieval returned
\* at least one candidate and the first candidate of the decay-applied search
\* has similarity_score >= CACHE_HIT_THRESHOLD (inclusive) and an age of at
\* most CACHE_MAX_AGE_DAYS days; with no candidates cache_hit is false.
C5_CacheHitIffFirstCandidateCloseAndRecent ==
    [][\A r \in Slots : RetrieveReturns(r) =>
          LET candidates == EvidenceOf(state'[r])
          IN  state'[r].cache_hit <=>
                 /\ Len(candidates) >= 1
                 /\ candidates[1].similarity_score >= 8500
                 /\ AgeDays(candidates[1], now') <= 3]_vars

\* a cache hit on a candidate exactly on the threshold and exactly 3 days old
C5_HitOnBothBoundaries ==
    \E r \in Slots :
        /\ state[r].pc = "web_search"
        /\ state[r].cache_hit
        /\ EvidenceOf(state[r])[1].similarity_score = CACHE_HIT_THRESHOLD
        /\ AgeDays(EvidenceOf(state[r])[1], now) = CACHE_MAX_AGE_DAYS

\* the first candidate lies between the two thresholds
BetweenThresholds(candidates) ==
    /\ Len(candidates) >= 1
    /\ candidates[1].similarity_score >= CACHE_HIT_THRESHOLD
    /\ candidates[1].similarity_score < SIMILARITY_THRESHOLD

\* C6 (as stated): for a request whose best stored match has similarity s
\* with CACHE_HIT_THRESHOLD <= s < SIMILARITY_THRESHOLD and age <=
\* CACHE_MAX_AGE_DAYS, the read path reports cache_hit = true and
\* update_or_create leaves the matched record unchanged and creates a new
\* record.
C6_HitBelowMergeCreates ==
    [][\A r \in Slots :
          /\ (/\ RetrieveReturns(r)
              /\ BetweenThresholds(EvidenceOf(state'[r]))
              /\ AgeDays(EvidenceOf(state'[r])[1], now') <= CACHE_MAX_AGE_DAYS)
             => state'[r].cache_hit
          /\ (/\ UpdateOrCreateReturns(r)
              /\ state[r].cache_hit
              /\ BetweenThresholds(EvidenceOf(state[r])))
             => /\ store'[EvidenceOf(state[r])[1].id]
                    = store[EvidenceOf(state[r])[1].id]
                /\ DOMAIN store' # DOMAIN store]_vars

\* no stored record reaches the dedup threshold for the text
NoneMergeable(normalized_text) ==
    \A id \in DOMAIN store :
        Sim(normalized_text, store[id].normalized_text) < SIMILARITY_THRESHOLD

\* C6 (amended): when the first retrieved candidate has CACHE_HIT_THRESHOLD
\* <= s < SIMILARITY_THRESHOLD and age <= CACHE_MAX_AGE_DAYS the read path
\* reports cache_hit = true; and a request with no stored record at or above
\* SIMILARITY_THRESHOLD leaves every stored record unchanged on the write
\* path, where it creates exactly one new record if its embedding and its
\* upsert succeed and leaves the store as it was if either fails.
C6_ThresholdsIndependent ==
    [][\A r \in Slots :
          /\ (/\ RetrieveReturns(r)
              /\ BetweenThresholds(EvidenceOf(state'[r]))
              /\ AgeDays(EvidenceOf(state'[r])[1], now') <= CACHE_MAX_AGE_DAYS)
             => state'[r].cache_hit
          /\ (/\ UpdateOrCreateReturns(r)
              /\ NoneMergeable(state[r].verification_result[1].normalized_claim))
             => LET result == state'[r].memory_update_result[1]
                IN  /\ \A id \in DOMAIN store : store'[id] = store[id]
                    /\ IF result.action = "created"
                       THEN /\ result.claim_id \notin DOMAIN store
                            /\ DOMAIN store' = DOMAIN store \cup {result.claim_id}
                            /\ store'[result.claim_id].seen_count = 1
                       ELSE /\ result.action \in {"skipped", "error"}
                            /\ store' = store]_vars

\* a request answered from the cache by a record below the dedup threshold
\* has created a second record
C6_HitAndCreated ==
    \E r \in Slots :
        /\ state[r].pc = "END"
        /\ state[r].cache_hit
        /\ BetweenThresholds(EvidenceOf(state[r]))
        /\ state[r].memory_update_result[1].action = "created"
        /\ Cardinality(DOMAIN store) = 2

(***************************************************************************)
(* Web search and the shape of a run.                                      *)
(***************************************************************************)
\* worker r's web_search_node returns
WebSearchReturns(r) ==
    /\ state[r].pc = "web_search"
    /\ state'[r].pc = "reasoner"

\* C7: when the top candidate has similarity >= CACHE_HIT_THRESHOLD but an
\* age above CACHE_MAX_AGE_DAYS, cache_hit is false, and a request whose
\* cache_hit is false invokes the web search service whenever a web search
\* collaborator is configured.
C7_StaleMatchSearchesWeb ==
    [][\A r \in Slots :
          /\ (/\ RetrieveReturns(r)
              /\ Len(EvidenceOf(state'[r])) >= 1
              /\ EvidenceOf(state'[r])[1].similarity_score >= CACHE_HIT_THRESHOLD
              /\ AgeDays(EvidenceOf(state'[r])[1], now') > CACHE_MAX_AGE_DAYS)
             => ~state'[r].cache_hit
          /\ (/\ WebSearchReturns(r)
              /\ ~state[r].cache_hit
              /\ web_search_agent)
             => state'[r].web_invoked]_vars

\* a perfect match that is too old was not used and the web was searched
C7_StalePerfectMatchSearched ==
    \E r \in Slots :
        /\ state[r].pc = "reasoner"
        /\ Len(EvidenceOf(state[r])) >= 1
        /\ EvidenceOf(state[r])[1].similarity_score = 10000
        /\ ~state[r].cache_hit
        /\ state[r].web_invoked

\* C8: the web search service is invoked in a request only if cache_hit is
\* false and a web search collaborator exists; in every final state
\* cache_hit = true implies web_search_used = false and no web search
\* results, and web_search_used = true implies that the service was invoked
\* and returned at least one result.
C8_WebSearchOnlyOnMiss ==
    \A r \in Slots :
        /\ state[r].web_invoked => ~state[r].cache_hit /\ web_search_agent
        /\ state[r].pc = "END" =>
              /\ state[r].cache_hit =>
                    /\ ~state[r].web_search_used
                    /\ state[r].web_search_results = NONE
              /\ state[r].web_search_used =>
                    /\ state[r].web_invoked
                    /\ state[r].web_returned

\* a run ends having used the web, and the cache had candidates but no hit
C8_WebUsedAfterMiss ==
    \E r \in Slots :
        /\ state[r].pc = "END"
        /\ state[r].web_search_used
        /\ state[r].web_search_results # NONE
        /\ Len(EvidenceOf(state[r])) >= 1

\* the nodes of the graph in the order of its edges
Stages == <<"normalizer", "retriever", "web_search", "reasoner", "memory">>

\* how many nodes have run when a request is at pc
StagesDone(pc) ==
    CASE pc = "normalizer" -> 0
      [] pc = "retriever" -> 1
      [] pc = "web_search" -> 2
      [] pc = "reasoner" -> 3
      [] pc \in {"memory", "memory_write"} -> 4
      [] OTHER -> 5

\* C9: for every accepted request and every combination of failures of the
\* normalize, retrieve, web-search and reason stages, the run goes on to the
\* MemoryUpdate stage and to Done and returns a response: a request that is
\* not done can always take its next step, no request ends by raising, and a
\* request that is done has run MemoryUpdate and has a response to return.
C9_NeverAbortsEarly ==
    \A r \in Slots :
        /\ state[r].pc # "raised"
        /\ state[r].pc # "idle" => ENABLED Step(r)
        /\ state[r].pc = "END" =>
              /\ \E i \in 1..Len(state[r].visited) : state[r].visited[i] = "memory"
              /\ state[r].verification_result # NONE
              /\ state[r].memory_update_result # NONE
              /\ Response(state[r]) # NONE

\* a run in which normalize, retrieve, web search and reason all failed is done
C9_DoneAfterEveryStageFailed ==
    \E r \in Slots :
        /\ state[r].pc = "END"
        /\ state[r].errors = <<"Normalization error", "Retrieval error",
                               "Web search error", "Reasoning error">>
        /\ state[r].memory_update_result[1].action = "created"

\* C10: every request visits the stages in the fixed order Normalize,
\* Retrieve, WebSearch, Reason, MemoryUpdate, Done, each exactly once; the
\* WebSearch stage is visited even when the skip condition holds, as a no-op
\* that sets web_search_used = false and web_search_results = none.
C10_FixedStageOrder ==
    \A r \in Slots :
        state[r].pc # "idle" =>
            /\ state[r].visited = SubSeq(Stages, 1, StagesDone(state[r].pc))
            /\ (/\ StagesDone(state[r].pc) >= 3
                /\ state[r].cache_hit \/ ~web_search_agent)
               => /\ state[r].visited[3] = "web_search"
                  /\ ~state[r].web_invoked
                  /\ ~state[r].web_search_used
                  /\ state[r].web_search_results = NONE

\* a run that skipped the web search on a cache hit is done
C10_DoneWithSearchSkipped ==
    \E r \in Slots :
        /\ state[r].pc = "END"
        /\ state[r].cache_hit
        /\ web_search_agent
        /\ state[r].visited = Stages

(***************************************************************************)
(* Failures of the external services and the errors list.                  *)
(***************************************************************************)
\* the verification result is one ReasoningAgent.reason puts in the place of
\* the LLM's answer when the call or the parsing of its reply fails
\* (_fallback_reasoning), or the one reason_node puts in place when reason
\* raises
FellBack(verification) ==
    verification.explanation \in {"Insufficient evidence in database",
                                  "Based on similar claims in database",
                                  "Error during reasoning"}

\* C11: when the reasoning collaborator fails during a request, the response
\* has a non-empty errors list and a defined verdict (Uncertain or the
\* heuristic vote), and the memory-update stage still runs against that
\* fallback verification result.
C11_ReasonerFailureRecorded ==
    \A r \in Slots :
        (/\ state[r].pc = "END"
         /\ state[r].verification_result # NONE
         /\ FellBack(state[r].verification_result[1]))
        => /\ state[r].errors # <<>>
           /\ state[r].verification_result[1].verdict \in Verdicts
           /\ state[r].memory_update_result # NONE

\* an external call failed in this step
CallFailed == faultsLeft' < faultsLeft

\* C12: every failure of an external service (the normalization service, the
\* embedding, the store query, the web search, the reasoning service, the
\* store write) is recovered at its stage, recorded as an entry in the
\* request's errors list and never raised to the caller.
C12_EveryFailureRecorded ==
    [][CallFailed =>
          \A r \in Slots :
              state'[r] # state[r] =>
                  /\ Len(state'[r].errors) > Len(state[r].errors)
                  /\ state'[r].pc # "raised"]_vars

(***************************************************************************)
(* The end-to-end scenario: a claim submitted twice against an empty store. *)
(***************************************************************************)
\* the requests submitted so far in a behaviour of SpecRepeat
Submitted == RepeatRequests - requestsLeft

\* no external call has failed so far in a behaviour of SpecRepeat
NoFailureYet == faultsLeft = RepeatFaults

\* the first request has found nothing and created the record
FirstSubmissionCreated(s) ==
    /\ ~s.cache_hit
    /\ EvidenceOf(s) = <<>>
    /\ s.memory_update_result = Some(MemoryUpdateResult("created", 1, 1))
    /\ DOMAIN store = {1}
    /\ store[1].seen_count = 1

\* the second request has retrieved the record and merged into it
ResubmissionMerged(s) ==
    /\ Len(EvidenceOf(s)) = 1
    /\ EvidenceOf(s)[1].id = 1
    /\ s.memory_update_result = Some(MemoryUpdateResult("updated", 1, 2))
    /\ DOMAIN store = {1}
    /\ store[1].seen_count = 2

\* C13 (as stated): submitting a claim against an empty store yields
\* cache_hit = false, memory.action = created and seen_count = 1;
\* resubmitting the identical text next (no faults, no concurrent request)
\* retrieves that record and yields cache_hit = true, action = updated and
\* seen_count = 2, with exactly one record in the store.
C13_ResubmissionHitsCache ==
    \A r \in Slots :
        (state[r].pc = "END" /\ NoFailureYet) =>
            /\ Submitted = 1 => FirstSubmissionCreated(state[r])
            /\ Submitted = 2 => /\ ResubmissionMerged(state[r])
                                /\ state[r].cache_hit

\* C13 (amended): as stated, except that the resubmission yields cache_hit =
\* true when it completes at most CACHE_MAX_AGE_DAYS days after the record
\* was stored; a later resubmission still retrieves the record and merges
\* into it (action = updated, seen_count = 2, one record).
C13_ResubmissionMergesAndHitsWhileRecent ==
    \A r \in Slots :
        (state[r].pc = "END" /\ NoFailureYet) =>
            /\ Submitted = 1 => FirstSubmissionCreated(state[r])
            /\ Submitted = 2 =>
                  /\ ResubmissionMerged(state[r])
                  /\ AgeDays(EvidenceOf(state[r])[1], now) <= CACHE_MAX_AGE_DAYS
                        => state[r].cache_hit

\* the resubmission, three days after the first, hit the cache and merged
C13_ResubmittedOnLastRecentDay ==
    \E r \in Slots :
        /\ state[r].pc = "END"
        /\ NoFailureYet
        /\ Submitted = 2
        /\ state[r].cache_hit
        /\ AgeDays(EvidenceOf(state[r])[1], now) = CACHE_MAX_AGE_DAYS
        /\ state[r].memory_update_result[1].action = "updated"
        /\ store[1].seen_count = 2

(***************************************************************************)
(* Deduplication on the write path.                                        *)
(***************************************************************************)
\* C14: for requests run one at a time, runs in which the store's similarity
\* query fails included, update_or_create creates a new record only when no
\* stored record matches the normalized text at or above the dedup
\* threshold; when such a record exists the call does not create one.
C14_CreatesOnlyWithoutMatch ==
    [][\A r \in Slots :
          (/\ UpdateOrCreateReturns(r)
           /\ state'[r].memory_update_result[1].action = "created")
          => NoneMergeable(state[r].verification_result[1].normalized_claim)]_vars

\* two stored records match each other at or above the dedup threshold
Duplicates(id1, id2) ==
    /\ id1 # id2
    /\ Sim(store[id1].normalized_text, store[id2].normalized_text)
         >= SIMILARITY_THRESHOLD

\* C15: two concurrent requests for the same new claim can both observe no
\* match and both create a record, which leaves two records with similarity
\* >= SIMILARITY_THRESHOLD to each other, and no later pipeline step removes
\* or merges them: every step keeps every stored record under its id with
\* its normalized text, so a pair of duplicates stays a pair of duplicates.
C15_DuplicatesAreNeverRemoved ==
    [][/\ \A id \in DOMAIN store :
             /\ id \in DOMAIN store'
             /\ store'[id].normalized_text = store[id].normalized_text
       /\ \A id1, id2 \in DOMAIN store :
             Duplicates(id1, id2) => Duplicates(id1, id2)']_vars

\* both requests found no match and each has created a record for the claim
C15_BothCreated ==
    /\ \A r \in Slots :
          /\ state[r].pc = "END"
          /\ state[r].existing = NONE
          /\ state[r].memory_update_result[1].action = "created"
    /\ state[1].memory_update_result[1].claim_id
         # state[2].memory_update_result[1].claim_id
    /\ Duplicates(state[1].memory_update_result[1].claim_id,
                  state[2].memory_update_result[1].claim_id)

(***************************************************************************)
(* A failing store query on the read path.                                 *)
(***************************************************************************)
\* the store query of worker r's search fails in this step: an external call
\* of retrieve_node fails and it is not the embedding, whose failure
\* retrieve_node records
StoreQueryFails(r) ==
    /\ RetrieveReturns(r)
    /\ CallFailed
    /\ state'[r].errors = state[r].errors

\* C16: a store query failure inside search makes search return an empty
\* candidate list instead of raising: retrieve_node records no error, the
\* request proceeds with retrieved_evidence = [] and cache_hit = false, and
\* the remaining stages run (a request with an empty retrieved_evidence can
\* always take its next step, and never ends by raising).
C16_QueryFailureGivesNoCandidates ==
    [][\A r \in Slots :
          /\ StoreQueryFails(r) =>
                /\ state'[r].retrieved_evidence = Some(<<>>)
                /\ ~state'[r].cache_hit
          /\ (state[r].pc # "idle" /\ state[r].retrieved_evidence = Some(<<>>))
             => /\ ENABLED Step(r)
                /\ state'[r].pc # "raised"]_vars

\* the resubmission of a stored claim retrieved nothing, recorded no error,
\* ran every stage and merged into the record its search did not return
C16_DoneAfterQueryFailure ==
    \E r \in Slots :
        /\ state[r].pc = "END"
        /\ Submitted = 2
        /\ state[r].retrieved_evidence = Some(<<>>)
        /\ ~state[r].cache_hit
        /\ state[r].errors = <<>>
        /\ state[r].visited = Stages
        /\ state[r].memory_update_result[1].action = "updated"

(***************************************************************************)
(* The memory field of a response.                                         *)
(***************************************************************************)
\* C18: the memory field of every response has action in {created, updated,
\* skipped}, for every outcome of the memory-update stage, a failure of the
\* embedding call or of the store included.
C18_MemoryActionIsOneOfThree ==
    \A r \in Slots :
        (state[r].pc = "END" /\ Response(state[r]) # NONE) =>
            /\ Response(state[r])[1].memory # NONE
            /\ Response(state[r])[1].memory[1].action
                 \in {"created", "updated", "skipped"}

(***************************************************************************)
(* Input validation at the entry points.                                   *)
(***************************************************************************)
\* the raw text is not empty, has 3 to 2000 characters and holds a letter
ValidRawText(text) ==
    /\ Truthy(text)
    /\ TextLength(text) >= 3
    /\ TextLength(text) <= 2000
    /\ HasAlpha(text)

\* C17: a text request whose raw_text is empty, shorter than 3 characters,
\* longer than 2000 characters or without any alphabetic character is
\* rejected before the Normalize stage starts, through every entry point
\* (POST /verify and ClaimVerificationPipeline.verify): no request that runs
\* in the pipeline has such a raw_text.
C17_InvalidTextNeverRuns ==
    \A r \in Slots :
        (state[r].pc # "idle" /\ state[r].image_path = NONE)
        => ValidRawText(state[r].raw_text)

C20_NormalizedTextNonEmpty ==
    \A id \in DOMAIN store :
        store[id].source = "user_verification"
        => store[id].normalized_text \notin {"", NoText}

(***************************************************************************)
(* The response of the two entry points.                                   *)
(***************************************************************************)
\* the response a request at END is about to get, by its entry point
ResponseOf(s) ==
    IF s.entry = "api" THEN ApiResponse(s) ELSE Response(s)[1]

\* C21: the response to a verification request always carries an errors
\* list, through every entry point (ClaimVerificationPipeline.verify and the
\* POST /verify handler).
C21_ResponseCarriesErrors ==
    \A r \in Slots :
        state[r].pc = "END" => "errors" \in DOMAIN ResponseOf(state[r])

(***************************************************************************)
(* Removal of records.                                                     *)
(***************************************************************************)
\* C22: no record is ever removed from the store except by the clear
\* operation that drops and recreates the whole collection: every step of a
\* verification request, of a bulk ingestion and of any other method of the
\* memory agent keeps every stored id.
C22_OnlyClearRemovesRecords ==
    [][ClearCollection \/ DOMAIN store \subseteq DOMAIN store']_vars

(***************************************************************************)
(* Bulk ingestion in chunks.                                               *)
(***************************************************************************)
\* the chunk numbers batch_upsert reported as failed
FailedChunks(result) ==
    {result.errors[i].batch :
        i \in {j \in 1..Len(result.errors) : "batch" \in DOMAIN result.errors[j]}}

\* the chunk of the k-th point of a call, chunks holding batch_size points
ChunkOf(k) == (k - 1) \div batch_size

\* a step in which batch_upsert ran and returned, where the calls of a run
\* are store maintenance calls
BatchUpsertReturned ==
    /\ requestsLeft' < requestsLeft
    /\ returned' # NONE
    /\ returned'[1].op = "batch_upsert"

\* C23: bulk ingestion commits chunks of at most 100 records independently:
\* the records of every chunk whose upsert succeeded are stored, whether a
\* chunk before or after it failed, those of a failing chunk are not, the
\* records stored before the call are untouched, and success_count is the
\* number of records in the chunks that succeeded.
C23_ChunksCommitIndependently ==
    [][BatchUpsertReturned =>
          LET result == returned'[1].value
              added == DOMAIN store' \ DOMAIN store
          IN  /\ \A id \in DOMAIN store :
                    id \in DOMAIN store' /\ store'[id] = store[id]
              /\ \A id \in nextId..(nextId' - 1) :
                    id \in added <=>
                       ChunkOf(id - nextId + 1) \notin FailedChunks(result)
              /\ added \subseteq nextId..(nextId' - 1)
              /\ result.success_count = Cardinality(added)]_vars

\* a call whose second chunk failed while its first and its third chunk were
\* stored
C23_MiddleChunkFailed ==
    /\ returned # NONE
    /\ returned[1].op = "batch_upsert"
    /\ FailedChunks(returned[1].value) = {1}
    /\ returned[1].value.success_count = batch_size + 1
    /\ DOMAIN store = (1..batch_size) \cup {2 * batch_size + 1}

(***************************************************************************)
(* One pass through the stages.                                            *)
(***************************************************************************)
\* the place of a request in the graph normalizer -> retriever -> web_search
\* -> reasoner -> memory -> END; update_or_create reads, then writes
StageOrder(pc) ==
    CASE pc = "idle" -> 0
      [] pc = "normalizer" -> 1
      [] pc = "retriever" -> 2
      [] pc = "web_search" -> 3
      [] pc = "reasoner" -> 4
      [] pc = "memory" -> 5
      [] pc = "memory_write" -> 6
      [] pc = "END" -> 7
      [] OTHER -> 8

\* the records a step wrote: those it added and those it changed
Written ==
    {id \in DOMAIN store' : id \notin DOMAIN store \/ store'[id] # store[id]}

\* C24: no stage retries: every step of a request takes it forward in the
\* graph, so that within one request the retrieval query, the web search, the
\* reasoning call and the dedup query are made at most once, and the one
\* write step writes at most one record (one set_payload or one upsert,
\* never both).
C24_NoStageRunsTwice ==
    [][\A r \in Slots :
          /\ state'[r] # state[r] =>
                \/ StageOrder(state'[r].pc) > StageOrder(state[r].pc)
                \/ state[r].pc = "END" /\ state'[r].pc = "idle"
          /\ Len(state'[r].visited) > Len(state[r].visited) =>
                /\ state'[r].visited =
                      Append(state[r].visited,
                             state'[r].visited[Len(state'[r].visited)])
                /\ \A i \in 1..Len(state[r].visited) :
                      state[r].visited[i]
                         # state'[r].visited[Len(state'[r].visited)]
          /\ Cardinality(Written) <= 1]_vars

\* a request went through every stage, called the web search and merged
C24_EveryStageRan ==
    \E r \in Slots :
        /\ state[r].pc = "END"
        /\ state[r].visited =
              <<"normalizer", "retriever", "web_search", "reasoner", "memory">>
        /\ state[r].web_invoked
        /\ state[r].memory_update_result # NONE
        /\ state[r].memory_update_result[1].action = "updated"

(***************************************************************************)
(* What a merge and a create write.                                        *)
(***************************************************************************)
\* the keys of a stored payload that a merge sets
MergedKeys == {"seen_count", "last_seen", "confidence"}

\* worker r's update_or_create, having found a match, makes its write
MergeWrites(r) ==
    /\ state[r].pc = "memory_write"
    /\ state'[r].pc # "memory_write"
    /\ state[r].existing # NONE

\* C25: a merge writes only seen_count, last_seen and confidence of the
\* matched record: its verdict, claim_text, normalized_text (from which the
\* stored vector is computed), explanation, source, source_reliability,
\* timestamp and first_seen are unchanged, and no other record is modified
\* or created by the call.
C25_MergeWritesThreeKeys ==
    [][\A r \in Slots :
          MergeWrites(r) =>
             LET id == state[r].existing[1].id
             IN  /\ DOMAIN store' = DOMAIN store
                 /\ \A i \in DOMAIN store \ {id} : store'[i] = store[i]
                 /\ DOMAIN store'[id] = DOMAIN store[id]
                 /\ \A key \in DOMAIN store[id] \ MergedKeys :
                       store'[id][key] = store[id][key]]_vars

\* a request whose verdict differs from the stored one has merged into the
\* record
C25_MergedWithOtherVerdict ==
    \E r \in Slots :
        /\ state[r].pc = "END"
        /\ state[r].memory_update_result # NONE
        /\ state[r].memory_update_result[1].action = "updated"
        /\ state[r].memory_update_result[1].claim_id \in DOMAIN store
        /\ store[state[r].memory_update_result[1].claim_id].verdict
              # state[r].verification_result[1].verdict
        /\ store[state[r].memory_update_result[1].claim_id].seen_count > 1

\* worker r's update_or_create, having found no match, makes its write and
\* the write succeeds
CreateWrites(r) ==
    /\ state[r].pc = "memory_write"
    /\ state'[r].pc # "memory_write"
    /\ state[r].existing = NONE
    /\ state'[r].memory_update_result[1].action # "skipped"

\* C26: when update_or_create finds no match and the store write succeeds,
\* exactly one record is added, under a fresh id, with seen_count = 1,
\* first_seen = last_seen = timestamp = the call's current time, the
\* verification's verdict and confidence and its normalized claim (from which
\* the dense vector is computed); no existing record is modified, and the
\* result is action = created with seen_count = 1.
C26_CreateAddsOneRecord ==
    [][\A r \in Slots :
          CreateWrites(r) =>
             LET result == state'[r].memory_update_result[1]
                 verification == state[r].verification_result[1]
                 id == result.claim_id
                 call_time == IsoTimestamp(state[r].call_now)
             IN  /\ result.action = "created"
                 /\ result.seen_count = 1
                 /\ id \notin DOMAIN store
                 /\ id >= nextId
                 /\ DOMAIN store' = DOMAIN store \cup {id}
                 /\ \A i \in DOMAIN store : store'[i] = store[i]
                 /\ store'[id].seen_count = 1
                 /\ store'[id].first_seen = call_time
                 /\ store'[id].last_seen = call_time
                 /\ store'[id].timestamp = call_time
                 /\ store'[id].verdict = verification.verdict
                 /\ store'[id].confidence = verification.confidence
                 /\ store'[id].normalized_text = verification.normalized_claim
                 /\ store'[id].claim_text = verification.claim_text]_vars

\* a request created its record beside the one the store held
C26_CreatedBesideAnother ==
    \E r \in Slots :
        /\ state[r].pc = "END"
        /\ state[r].memory_update_result # NONE
        /\ state[r].memory_update_result[1].action = "created"
        /\ Cardinality(DOMAIN store) = 2

(***************************************************************************)
(* The dedup decision.                                                     *)
(***************************************************************************)
\* worker r's update_or_create gets the answer of get_similar_claim
DedupAnswered(r) ==
    /\ state[r].pc = "memory"
    /\ state'[r].pc = "memory_write"

\* the raw similarity of stored record id to worker r's dedup query
DedupSim(r, id) ==
    Sim(state[r].verification_result[1].normalized_claim,
        store[id].normalized_text)

Searched ==
    /\ returned # NONE
    /\ returned[1].op = "search"
    /\ ~returned[1].raised

\* the place of the candidate `id` in what the store answered
StorePlace(id) ==
    CHOOSE i \in 1..Len(returned[1].results) : returned[1].results[i].id = id

\* C28: with time decay, search returns the candidates the store returned,
\* ordered by non-increasing time_decayed_score, candidates of equal adjusted
\* score in the store's order, each with the store's raw score as
\* similarity_score; without time decay it returns them in the store's
\* order, with time_decayed_score equal to similarity_score.
C28_DecaySortIsStable ==
    Searched =>
       LET results == returned[1].results
           out == returned[1].value
       IN  /\ Len(out) = Len(results)
           /\ {out[i].id : i \in 1..Len(out)}
                 = {results[i].id : i \in 1..Len(results)}
           /\ \A i \in 1..Len(out) :
                 out[i].similarity_score = results[StorePlace(out[i].id)].score
           /\ returned[1].apply_time_decay =>
                 \A i, j \in 1..Len(out) :
                    i < j =>
                       \/ out[i].time_decayed_score > out[j].time_decayed_score
                       \/ /\ out[i].time_decayed_score = out[j].time_decayed_score
                          /\ StorePlace(out[i].id) < StorePlace(out[j].id)
           /\ ~returned[1].apply_time_decay =>
                 \A i \in 1..Len(out) :
                    /\ out[i].id = results[i].id
                    /\ out[i].time_decayed_score
                          = out[i].similarity_score * 100000

\* the decay moved a fresh candidate before the store's best one, and two
\* candidates of equal adjusted score, which the store answered with the
\* higher id first, follow it
C28_ReorderedWithTie ==
    /\ Searched
    /\ returned[1].apply_time_decay
    /\ Len(returned[1].value) = 3
    /\ returned[1].value[1].id # returned[1].results[1].id
    /\ returned[1].value[2].time_decayed_score
          = returned[1].value[3].time_decayed_score
    /\ returned[1].value[2].id > returned[1].value[3].id

\* the same record is a candidate of two successive searches with time
\* decay, the second on a later day: the candidate before and after
AgedBetweenSearches(i, j) ==
    /\ Searched
    /\ returned[1].apply_time_decay
    /\ returned' # NONE
    /\ returned'[1].op = "search"
    /\ ~returned'[1].raised
    /\ returned'[1].apply_time_decay
    /\ now' > now
    /\ i \in 1..Len(returned[1].value)
    /\ j \in 1..Len(returned'[1].value)
    /\ returned[1].value[i].id = returned'[1].value[j].id

TopIsUndated(r) ==
    /\ state[r].pc \in {"web_search", "reasoner", "memory", "memory_write", "END"}
    /\ EvidenceOf(state[r]) # <<>>
    /\ EvidenceOf(state[r])[1].timestamp.kind # "iso"

\* C29: a record whose timestamp is missing or unparseable is treated as age
\* 0 on both paths: its adjusted score is its raw similarity, and
\* retrieve_node treats it as recent, so that cache_hit is true whenever it
\* is the top candidate with similarity >= CACHE_HIT_THRESHOLD.
C29_UndatedIsFreshOnBothPaths ==
    \A r \in Slots :
        TopIsUndated(r) =>
           LET top == EvidenceOf(state[r])[1]
           IN  /\ top.time_decayed_score = top.similarity_score * 100000
               /\ top.similarity_score >= CACHE_HIT_THRESHOLD
                     => state[r].cache_hit

(***************************************************************************)
(* C31                                                                     *)
(***************************************************************************)
\* the reasoner was called on its own and the LLM call failed or its reply
\* was no JSON
ReasonFellBack ==
    /\ returned # NONE
    /\ returned[1].op = "reason"
    /\ returned[1].reply.kind \in {"malformed", "fail"}

\* C31: when the reasoning service fails or returns malformed output, the
\* fallback verdict is a verdict with the largest sum of similarity_score *
\* source_reliability over the evidence; with no evidence it is Uncertain with
\* confidence 0.3; and two fallbacks over the same evidence list give the same
\* verdict and confidence.
C31_FallbackIsWeightedVote ==
    /\ [](ReasonFellBack =>
            LET evidence == returned[1].evidence
                result == returned[1].value
            IN  IF evidence = <<>>
                THEN /\ result.verdict = VERDICT_UNCERTAIN
                     /\ result.confidence = 3000
                ELSE \A verdict \in Verdicts \cup
                                    {evidence[i].verdict : i \in 1..Len(evidence)} :
                        VoteOf(verdict, evidence)
                            <= VoteOf(result.verdict, evidence))
    /\ [][(/\ ReasonFellBack
           /\ ReasonFellBack'
           /\ returned'[1].evidence = returned[1].evidence)
          => /\ returned'[1].value.verdict = returned[1].value.verdict
             /\ returned'[1].value.confidence = returned[1].value.confidence]_vars

\* the fallback ran over two candidates and the second outvoted the first
C31_TopCandidateOutvoted ==
    /\ ReasonFellBack
    /\ Len(returned[1].evidence) = 2
    /\ returned[1].evidence[1].source_reliability > 0
    /\ returned[1].value.verdict = returned[1].evidence[2].verdict
    /\ returned[1].value.verdict # returned[1].evidence[1].verdict

(***************************************************************************)
(* C32                                                                     *)
(***************************************************************************)
\* the requests whose pipeline state holds an error
WithErrors == {r \in Slots : state[r].errors # <<>>}

\* C32: pipeline state is never shared across requests: a step of one request
\* changes no field of the pipeline state of another (its errors list,
\* cache_hit flag, evidence and verdict included), only the store, and an
\* error appears only in the state of a request one of whose own calls
\* failed, so that no more requests carry errors than calls have failed.
C32_PipelineStateIsPerRequest ==
    /\ [][\A r, q \in Slots :
             (r # q /\ state'[r] # state[r]) => state'[q] = state[q]]_vars
    /\ [](Cardinality(WithErrors) <= ShareFaults - faultsLeft)

\* two requests ran side by side to their ends, one of them through a failed
\* call: it carries the error and the other none
C32_OnlyTheFailedRequestHasErrors ==
    /\ state[1].pc = "END"
    /\ state[2].pc = "END"
    /\ state[1].errors # <<>>
    /\ state[2].errors = <<>>
    /\ faultsLeft < ShareFaults

(***************************************************************************)
(* C33                                                                     *)
(***************************************************************************)
\* the input positions batch_upsert reported as errors, counted from 1
FailedInputs(result) ==
    {result.errors[i].index + 1 :
        i \in {j \in 1..Len(result.errors) : "index" \in DOMAIN result.errors[j]}}

\* a step in which batch_upsert ran and returned, in a run that also holds
\* verification requests
BatchUpsertRan ==
    /\ BatchUpsertReturned
    /\ state' = state
    /\ \A r \in Slots : state[r].pc = "idle"

\* C33: bulk ingestion performs no similarity check: batch_upsert adds one new
\* record with seen_count = 1, under a new id, for every input claim with a
\* non-empty claim_text that was embedded and whose chunk committed, whatever
\* the store already holds, and modifies no existing record; the inputs with
\* an empty claim_text are skipped and reported as errors.
C33_BulkIngestionNeverMerges ==
    [][BatchUpsertRan =>
          LET claims_data == returned'[1].claims_data
              result == returned'[1].value
              kept == SelectSeq([i \in 1..Len(claims_data) |-> i],
                                LAMBDA i : i \notin FailedInputs(result))
              committed == {j \in 1..Len(kept) :
                               ChunkOf(j) \notin FailedChunks(result)}
          IN  /\ \A i \in 1..Len(claims_data) :
                    claims_data[i].claim_text = "" => i \in FailedInputs(result)
              /\ \A id \in DOMAIN store :
                    id \in DOMAIN store' /\ store'[id] = store[id]
              /\ DOMAIN store' \ DOMAIN store = {nextId + j - 1 : j \in committed}
              /\ \A j \in committed :
                    /\ nextId + j - 1 \notin DOMAIN store
                    /\ store'[nextId + j - 1].claim_text
                          = claims_data[kept[j]].claim_text
                    /\ store'[nextId + j - 1].claim_text # ""
                    /\ store'[nextId + j - 1].seen_count = 1]_vars

\* a claim the store already held was ingested: the store holds it twice, the
\* old record as it was
C33_IngestedBesideItsDuplicate ==
    /\ returned # NONE
    /\ returned[1].op = "batch_upsert"
    /\ returned[1].value.success_count = 1
    /\ 1 \in DOMAIN store
    /\ store[1] = SeedStore[1]
    /\ \E id \in DOMAIN store :
          /\ id # 1
          /\ store[id].normalized_text = store[1].normalized_text
          /\ store[id].seen_count = 1

Qualifies(candidate, today) ==
    /\ candidate.similarity_score >= CACHE_HIT_THRESHOLD
    /\ AgeDays(candidate, today) <= CACHE_MAX_AGE_DAYS

\* C35: the cache decision depends only on the first candidate of the
\* decay-sorted list: that list is ordered by decayed score, and when its
\* first candidate is below CACHE_HIT_THRESHOLD or older than
\* CACHE_MAX_AGE_DAYS, cache_hit is false, whatever the candidates ranked
\* below it are.
C35_OnlyTopCandidateDecides ==
    [][\A r \in Slots : RetrieveReturns(r) =>
          LET candidates == EvidenceOf(state'[r])
          IN  /\ \A i \in 1..(Len(candidates) - 1) :
                    candidates[i].time_decayed_score
                        >= candidates[i + 1].time_decayed_score
              /\ (/\ Len(candidates) >= 1
                  /\ ~Qualifies(candidates[1], now'))
                 => ~state'[r].cache_hit]_vars

\* a request missed the cache on a stale first candidate while the second
\* candidate was close and recent
C35_MissDespiteGoodSecond ==
    \E r \in Slots :
        /\ state[r].pc = "web_search"
        /\ ~state[r].cache_hit
        /\ Len(EvidenceOf(state[r])) >= 2
        /\ EvidenceOf(state[r])[1].similarity_score >= CACHE_HIT_THRESHOLD
        /\ ~Qualifies(EvidenceOf(state[r])[1], now)
        /\ Qualifies(EvidenceOf(state[r])[2], now)

(***************************************************************************)
(* C36                                                                     *)
(***************************************************************************)
\* C36: a record's cache age is measured from its timestamp field, which no
\* step changes once the record is stored, a merge included: a request whose
\* top candidate is a record stored more than CACHE_MAX_AGE_DAYS days ago gets
\* cache_hit = false, however often the record was merged into since.
C36_MergesNeverRefreshTheCache ==
    [][/\ \A id \in DOMAIN store \cap DOMAIN store' :
             store'[id].timestamp = store[id].timestamp
       /\ \A r \in Slots : RetrieveReturns(r) =>
             LET candidates == EvidenceOf(state'[r])
             IN  (/\ Len(candidates) >= 1
                  /\ candidates[1].id \in DOMAIN store
                  /\ now' - store[candidates[1].id].timestamp.day
                        > CACHE_MAX_AGE_DAYS)
                 => /\ candidates[1].timestamp = store[candidates[1].id].timestamp
                    /\ ~state'[r].cache_hit]_vars

\* a request missed the cache on an exact match that had been merged into
\* earlier the same day, four days after it was stored
C36_MissRightAfterMerge ==
    \E r \in Slots :
        /\ state[r].pc = "web_search"
        /\ ~state[r].cache_hit
        /\ Len(EvidenceOf(state[r])) = 1
        /\ EvidenceOf(state[r])[1].similarity_score >= CACHE_HIT_THRESHOLD
        /\ EvidenceOf(state[r])[1].seen_count >= 2
        /\ store[EvidenceOf(state[r])[1].id].last_seen = IsoTimestamp(now)
        /\ now > CACHE_MAX_AGE_DAYS

(***************************************************************************)
(* C37                                                                     *)
(***************************************************************************)
\* the store write of worker r's update_or_create fails in this step
WriteFails(r) ==
    /\ state[r].pc = "memory_write"
    /\ state'[r].pc = "END"
    /\ CallFailed

\* C37: when the store write of update_or_create fails, the store is left
\* unchanged and the result is action = skipped: on a failed merge claim_id
\* is the matched record's id and seen_count the stored, un-incremented
\* count; on a failed create claim_id is empty (0 here) and seen_count is 0.
\* The failure does not raise out of update_or_create: memory_node records no
\* error.
C37_FailedWriteIsSkipped ==
    [][\A r \in Slots : WriteFails(r) =>
          LET result == state'[r].memory_update_result[1]
              existing == state[r].existing
          IN  /\ store' = store
              /\ result.action = "skipped"
              /\ existing # NONE =>
                    /\ result.claim_id = existing[1].id
                    /\ result.seen_count = existing[1].seen_count
                    /\ result.seen_count = store[existing[1].id].seen_count
              /\ existing = NONE =>
                    /\ result.claim_id = 0
                    /\ result.seen_count = 0
              /\ state'[r].errors = state[r].errors]_vars

\* the resubmission of a stored claim ended with a failed merge: skipped,
\* with the record's id and its count of 1, and the record as it was
C37_MergeSkipped ==
    \E r \in Slots :
        /\ state[r].pc = "END"
        /\ Submitted = 2
        /\ state[r].memory_update_result
              = Some(MemoryUpdateResult("skipped", 1, 1))
        /\ DOMAIN store = {1}
        /\ store[1].seen_count = 1
        /\ state[r].errors = <<>>

(***************************************************************************)
(* C38                                                                     *)
(***************************************************************************)
\* C38: when a request's memory action is created or updated, the seen_count
\* it reports is the seen_count stored for claim_id at the moment its write
\* completes, for requests run one at a time and for requests that run
\* concurrently and merge into the same record.
C38_ReportedCountIsStoredCount ==
    [][\A r \in Slots :
          (/\ UpdateOrCreateReturns(r)
           /\ state'[r].memory_update_result[1].action \in {"created", "updated"})
          => LET result == state'[r].memory_update_result[1]
             IN  /\ result.claim_id \in DOMAIN store'
                 /\ store'[result.claim_id].seen_count = result.seen_count]_vars

\* two concurrent requests merged into the same record: both report the
\* count 2, which is the count the store holds
C38_BothMergedIntoOneRecord ==
    /\ \A r \in Slots :
          /\ state[r].pc = "END"
          /\ state[r].memory_update_result
                = Some(MemoryUpdateResult("updated", 1, 2))
    /\ store[1].seen_count = 2

(***************************************************************************)
(* C39                                                                     *)
(***************************************************************************)
\* a step in which ensure_collection_exists, called on its own, returned
EnsureReturned ==
    /\ requestsLeft' < requestsLeft
    /\ returned' # NONE
    /\ returned'[1].op = "ensure_collection_exists"

\* a step in which clear_collection returned
ClearReturned ==
    /\ requestsLeft' < requestsLeft
    /\ returned' # NONE
    /\ returned'[1].op = "clear_collection"

\* clear_collection: a success leaves an existing, empty collection; when
\* the records are still there the deletion failed, and the call returned
\* false
ClearEmptiesOrReturnsFalse ==
    /\ (ClearReturned /\ returned'[1].value)
          => (collection_exists' /\ store' = <<>>)
    /\ (ClearReturned /\ store' # <<>>)
          => (/\ ~returned'[1].value
              /\ store' = store
              /\ collection_exists' = collection_exists)

\* C39 (as stated): ensure_collection_exists leaves an existing collection
\* and all its records untouched and returns true; clear_collection, when it
\* succeeds, leaves the store with an existing but empty collection, and when
\* deletion fails it returns false without raising.
C39_EnsureReturnsTrueOnExisting ==
    [][/\ (EnsureReturned /\ collection_exists)
             => (/\ store' = store
                 /\ collection_exists'
                 /\ returned'[1].value)
       /\ ClearEmptiesOrReturnsFalse]_vars

\* C39 (amended): ensure_collection_exists leaves an existing collection and
\* all its records untouched, and returns true unless listing the collections
\* fails, when it returns false; clear_collection as stated.
C39_EnsureKeepsExistingCollection ==
    [][/\ (EnsureReturned /\ collection_exists)
             => (/\ store' = store
                 /\ collection_exists'
                 /\ returned'[1].value <=> ~CallFailed)
       /\ ClearEmptiesOrReturnsFalse]_vars

\* ensure_collection_exists returned false on a collection that holds a
\* record, and left it as it was
C39_EnsureFailedOnExisting ==
    /\ returned # NONE
    /\ returned[1].op = "ensure_collection_exists"
    /\ ~returned[1].value
    /\ collection_exists
    /\ store = SeedStore
    /\ faultsLeft < IngestFaults

(***************************************************************************)
(* C40                                                                     *)
(***************************************************************************)
\* ingest_all_datasets ran: what the loaders yielded and what it passed on
Ingested ==
    /\ returned # NONE
    /\ returned[1].op = "ingest_all_datasets"

\* the positions of the rows with a text, each the first of its lower-cased,
\* trimmed text
FirstOfItsText(all_claims) ==
    SelectSeq([i \in 1..Len(all_claims) |-> i],
              LAMBDA i :
                  /\ Strip(Lower(all_claims[i].claim_text)) # ""
                  /\ \A j \in 1..(i - 1) :
                        Strip(Lower(all_claims[j].claim_text))
                            # Strip(Lower(all_claims[i].claim_text)))

\* C40: ingest_all_datasets passes to batch_upsert a list in which no two
\* claims have the same lower-cased, trimmed claim_text and none has an empty
\* text; of several inputs with the same such text only the first in input
\* order is kept, and the rows kept stay in input order.
C40_IngestedRowsAreUnique ==
    Ingested =>
        LET all_claims == returned[1].all_claims
            passed == returned[1].claims_data
            firsts == FirstOfItsText(all_claims)
        IN  /\ \A i, j \in 1..Len(passed) :
                  i # j => Strip(Lower(passed[i].claim_text))
                              # Strip(Lower(passed[j].claim_text))
            /\ \A i \in 1..Len(passed) :
                  /\ passed[i].claim_text # ""
                  /\ Strip(Lower(passed[i].claim_text)) # ""
            /\ passed = [k \in 1..Len(firsts) |-> all_claims[firsts[k]]]

\* the loaders yielded a claim twice, in another case and with spaces around
\* it and under another verdict: the first row was passed on alone
C40_SecondSpellingDropped ==
    /\ Ingested
    /\ Len(returned[1].all_claims) = 2
    /\ returned[1].all_claims[1].claim_text = "flat"
    /\ returned[1].all_claims[2].claim_text = " Flat "
    /\ returned[1].all_claims[2].verdict # returned[1].all_claims[1].verdict
    /\ returned[1].claims_data = <<returned[1].all_claims[1]>>

====
